---- MODULE Spec2Model ----
(***************************************************************************)
(* A model of the lead-enrichment pipeline of schoolcontacts:              *)
(*   - WebScraper.scrape_school_website, the crawl traversal (SpecCrawl);  *)
(*   - the phone normalisers and extract_whatsapp_links (SpecPhone);       *)
(*   - LLMExtractor._extract_json (SpecJson);                              *)
(*   - the WhatsApp merge of LeadEnrichmentEngine.enrich_school            *)
(*     (SpecMerge);                                                        *)
(*   - enrich_school / enrich_batch, the orchestrator (Spec).              *)
(* Each specification drives its own group of variables and leaves the     *)
(* other groups at their idle values.                                      *)
(***************************************************************************)
EXTENDS Integers, Sequences, FiniteSets, TLC

VARIABLES
    \* ---- crawl traversal (scraper.py, scrape_school_website) ----
    base_url,       \* the argument base_url
    max_pages,      \* the argument max_pages
    to_visit,       \* the local list to_visit
    visited_urls,   \* self.visited_urls
    pages,          \* the local list pages, returned at the end
    cur_url,        \* the local url while scrape_page is awaited
    fetch_log,      \* history: the URLs handed to scrape_page, with the outcome
    root_links,     \* history: the links of the first page fetched
    seen_again,     \* history: a page after the first linked to a visited URL
    crawl_pc,       \* position of the traversal
    \* ---- phone normalisation (scraper.py, validator.py) ----
    phone_in,       \* the input string
    scraper_once,   \* _normalize_indonesian_phone(phone_in)
    scraper_twice,  \* _normalize_indonesian_phone of that result
    validator_once, \* ContactValidator._normalize_phone(phone_in)
    validator_twice,\* ContactValidator._normalize_phone of that result
    wa_text,        \* the text handed to extract_whatsapp_links
    wa_found,       \* the list extract_whatsapp_links returns, as a set
    phone_pc,       \* position of the normalisation run
    \* ---- LLMExtractor._extract_json (extractor.py) ----
    json_text,      \* the argument text
    json_pattern,   \* index of the pattern of the for loop
    json_matches,   \* the matches of that pattern not yet tried
    json_result,    \* the value returned
    json_pc,        \* position in _extract_json
    \* ---- enrich_school / enrich_batch (main.py) ----
    schools,        \* the argument schools of enrich_batch
    validate_on,    \* config.VALIDATE_WHATSAPP or config.VALIDATE_EMAIL
    batch_result,   \* the BatchResult being built
    batch_i,        \* the loop index i of enrich_batch
    batch_pc,       \* position in enrich_batch
    result,         \* the ProcessingResult of the running enrich_school
    official_url,   \* the local official_url
    school_data,    \* the local school_data
    raised_in,      \* history: the phase whose exception the handler caught
    provider,       \* history: what the provider did in extract_school_data
    enrich_pc,      \* position in enrich_school
    \* ---- the WhatsApp merge of enrich_school (main.py, models.py) ----
    llm_business,   \* whatsapp_business in the provider's JSON
    llm_person,     \* whatsapp of the decision maker in the provider's JSON
    page_text,      \* text of the crawled page
    maps_phone,     \* google_maps_data["phone"]
    whatsapp_numbers,   \* the local list whatsapp_numbers
    whatsapp_business,  \* school_data.whatsapp_business
    person_whatsapp,    \* school_data.decision_makers[0].whatsapp
    phone_numbers,      \* school_data.phone_numbers
    llm_sources,    \* source_urls in the provider's JSON
    llm_phones,     \* phone_numbers in the provider's JSON
    page_urls,      \* the local list source_urls: urls of the pages scraped with success
    source_urls,    \* school_data.source_urls
    merge_pc,        \* position in the merge
    \* ---- LLMExtractor._get_role_priority (extractor.py) ----
    role_in, \* the argument role
    role_priority, \* the RolePriority returned
    role_pc, \* position of the call
    \* ---- LLMExtractor.validate_and_deduplicate, the people (extractor.py) ----
    dm_in, \* school_data.decision_makers on entry
    dm_out, \* school_data.decision_makers on return
    people_pc, \* position of the call
    \* ---- SchoolData.calculate_quality_score (models.py) ----
    q_fields, \* the fields of the record that are set
    q_people, \* self.decision_makers
    q_bonus, \* the local verification_bonus, in thousandths
    q_score, \* self.data_quality_score, in hundredths
    quality_pc, \* position of the call
    \* ---- ContactValidator (validator.py) ----
    whatsapp_cache, \* self.whatsapp_cache
    email_cache, \* self.email_cache
    v_kind, \* the method running: "whatsapp" or "email"
    v_input, \* the argument phone_number or email
    v_result, \* the local result
    v_known, \* history: the key was in the cache when the call began
    v_consulted, \* history: the call ran the heuristic, the API or a probe
    v_outcomes, \* history: what each step of verify_email_live did in this call
    v_calls, \* the number of calls made on the instance
    validator_pc, \* position of the running call
    \* ---- search-provider requests (search.py, scraper.py) ----
    permits, \* SerperSearch.rate_limiter of each engine: permits still free
    job_engine, \* engine each job runs on, 0 before the job starts
    job_searches, \* searches each job has finished
    job_pc, \* where each job is: idle, waiting, posting, searched, places, done
    \* ---- API job (api/routes/schools.py, api/services/enrichment.py) ----
    api_n, \* number of schools parsed from the request
    job_id, \* job id the POST handler generated and returned, "none" before
    job_rows, \* rows of the jobs table
    api_outcomes, \* statuses enrich_school returned so far
    api_results, \* results list of EnrichmentService.process_schools
    api_calls, \* arguments of each progress callback invocation
    progress_args, \* counts update_progress last passed to update_job_progress
    status_reply, \* last answer of GET /status/{job_id}
    api_i, \* schools the service loop has finished
    api_pc, \* start, queued, loop, callback, save, done, rejected
    \* ---- two traversals on the shared scraper (scraper.py, api/routes/schools.py) ----
    shared_visited, \* self.visited_urls of the one WebScraper both jobs use
    t_base, \* base_url of each traversal
    t_to_visit, \* to_visit of each traversal
    t_pages, \* pages of each traversal
    t_cur, \* URL each traversal is fetching
    t_fetched, \* URLs each traversal has passed to scrape_page, in order
    t_marked, \* URLs each traversal added to the visited set itself
    t_foreign_skip, \* a traversal skipped a popped URL it had not marked itself
    t_pc, \* idle, loop, fetch, sleep, done for each traversal
    \* ---- verified flags from extraction to the record (extractor.py, main.py) ----
    cfg_whatsapp, \* config.VALIDATE_WHATSAPP
    cfg_email, \* config.VALIDATE_EMAIL
    llm_people, \* decision_makers of the JSON the generative provider returned
    rec_people, \* decision_makers of school_data
    val_log, \* per person, what the ContactValidator was asked and answered
    rec_bonus, \* verification bonus of the last calculate_quality_score
    verify_i, \* people the validation loop has handled
    verify_pc, \* extract, validate, completed
    \* ---- enrich_schools_async (api/enrich.py, api/python/enrich.py) ----
    es_n, \* len(schools_data)
    es_i, \* schools the loop has finished
    es_successful, \* local counter successful
    es_failed, \* local counter failed
    es_persisted, \* progress updates the store accepted, in order
    es_pc, \* start, loop, done, failed
    \* ---- fetch order of a traversal as a function of the page graph (scraper.py) ----
    o_graph, \* links of each page of the site, in document order
    o_fail, \* pages whose fetch fails
    o_max, \* max_pages
    o_single, \* fetch order of the single-list traversal
    o_double, \* fetch order of the two-queue traversal
    order_pc \* call, returned

crawlVars == <<base_url, max_pages, to_visit, visited_urls, pages, cur_url,
               fetch_log, root_links, seen_again, crawl_pc>>

phoneVars == <<phone_in, scraper_once, scraper_twice, validator_once, validator_twice,
               wa_text, wa_found, phone_pc>>

jsonVars == <<json_text, json_pattern, json_matches, json_result, json_pc>>

engineVars == <<schools, validate_on, batch_result, batch_i, batch_pc, result, official_url,
                school_data, raised_in, provider, enrich_pc>>

mergeVars == <<llm_business, llm_person, page_text, maps_phone, whatsapp_numbers,
               whatsapp_business, person_whatsapp, phone_numbers, llm_sources, llm_phones,
               page_urls, source_urls, merge_pc>>

roleVars == <<role_in, role_priority, role_pc>>

peopleVars == <<dm_in, dm_out, people_pc>>

qualityVars == <<q_fields, q_people, q_bonus, q_score, quality_pc>>

validatorVars == <<whatsapp_cache, email_cache, v_kind, v_input, v_result, v_known, v_consulted, v_outcomes, v_calls, validator_pc>>

searchVars == <<permits, job_engine, job_searches, job_pc>>

apiVars == <<api_n, job_id, job_rows, api_outcomes, api_results, api_calls, progress_args, status_reply, api_i, api_pc>>

sharedVars == <<shared_visited, t_base, t_to_visit, t_pages, t_cur, t_fetched, t_marked, t_foreign_skip, t_pc>>

verifyVars == <<cfg_whatsapp, cfg_email, llm_people, rec_people, val_log, rec_bonus, verify_i, verify_pc>>

asyncVars == <<es_n, es_i, es_successful, es_failed, es_persisted, es_pc>>

orderVars == <<o_graph, o_fail, o_max, o_single, o_double, order_pc>>

vars == <<crawlVars, phoneVars, jsonVars, engineVars, mergeVars, roleVars, peopleVars, qualityVars, validatorVars, searchVars, apiVars, sharedVars, verifyVars, asyncVars, orderVars>>

notCrawl  == <<phoneVars, jsonVars, engineVars, mergeVars, roleVars, peopleVars, qualityVars, validatorVars, searchVars, apiVars, sharedVars, verifyVars, asyncVars, orderVars>>
notPhone  == <<crawlVars, jsonVars, engineVars, mergeVars, roleVars, peopleVars, qualityVars, validatorVars, searchVars, apiVars, sharedVars, verifyVars, asyncVars, orderVars>>
notJson   == <<crawlVars, phoneVars, engineVars, mergeVars, roleVars, peopleVars, qualityVars, validatorVars, searchVars, apiVars, sharedVars, verifyVars, asyncVars, orderVars>>
notEngine == <<crawlVars, phoneVars, jsonVars, mergeVars, roleVars, peopleVars, qualityVars, validatorVars, searchVars, apiVars, sharedVars, verifyVars, asyncVars, orderVars>>
notMerge  == <<crawlVars, phoneVars, jsonVars, engineVars, roleVars, peopleVars, qualityVars, validatorVars, searchVars, apiVars, sharedVars, verifyVars, asyncVars, orderVars>>
notRole == <<crawlVars, phoneVars, jsonVars, engineVars, mergeVars, peopleVars, qualityVars, validatorVars, searchVars, apiVars, sharedVars, verifyVars, asyncVars, orderVars>>
notPeople == <<crawlVars, phoneVars, jsonVars, engineVars, mergeVars, roleVars, qualityVars, validatorVars, searchVars, apiVars, sharedVars, verifyVars, asyncVars, orderVars>>
notQuality == <<crawlVars, phoneVars, jsonVars, engineVars, mergeVars, roleVars, peopleVars, validatorVars, searchVars, apiVars, sharedVars, verifyVars, asyncVars, orderVars>>
notValidator == <<crawlVars, phoneVars, jsonVars, engineVars, mergeVars, roleVars, peopleVars,
    qualityVars, searchVars, apiVars, sharedVars, verifyVars, asyncVars, orderVars>>
notSearch == <<crawlVars, phoneVars, jsonVars, engineVars, mergeVars, roleVars, peopleVars,
    qualityVars, validatorVars, apiVars, sharedVars, verifyVars, asyncVars, orderVars>>
notApi == <<crawlVars, phoneVars, jsonVars, engineVars, mergeVars, roleVars, peopleVars,
    qualityVars, validatorVars, searchVars, sharedVars, verifyVars, asyncVars, orderVars>>
notShared == <<crawlVars, phoneVars, jsonVars, engineVars, mergeVars, roleVars, peopleVars,
    qualityVars, validatorVars, searchVars, apiVars, verifyVars, asyncVars, orderVars>>
notVerify == <<crawlVars, phoneVars, jsonVars, engineVars, mergeVars, roleVars, peopleVars,
    qualityVars, validatorVars, searchVars, apiVars, sharedVars, asyncVars, orderVars>>
notAsync == <<crawlVars, phoneVars, jsonVars, engineVars, mergeVars, roleVars, peopleVars,
    qualityVars, validatorVars, searchVars, apiVars, sharedVars, verifyVars, orderVars>>
notOrder == <<crawlVars, phoneVars, jsonVars, engineVars, mergeVars, roleVars, peopleVars,
    qualityVars, validatorVars, searchVars, apiVars, sharedVars, verifyVars, asyncVars>>

\* Python's None; a one-token string, so that it compares with strings
None == <<"None">>

\* no URL: the value of url outside the loop body
NoUrl == [netloc |-> "none", words |-> {}]

\* the values of a group of variables while another specification runs
IdleEngine ==
    /\ schools = <<>> /\ validate_on = FALSE
    /\ batch_result = None /\ batch_i = 0 /\ batch_pc = "idle"
    /\ result = None /\ official_url = None /\ school_data = None
    /\ raised_in = None /\ provider = None /\ enrich_pc = "idle"

IdleMerge ==
    /\ llm_business = None /\ llm_person = None /\ page_text = <<>> /\ maps_phone = None
    /\ whatsapp_numbers = {} /\ whatsapp_business = None /\ person_whatsapp = None
    /\ phone_numbers = <<>> /\ llm_sources = <<>> /\ llm_phones = <<>> /\ page_urls = <<>>
    /\ source_urls = <<>> /\ merge_pc = "idle"

IdleJson ==
    /\ json_text = <<>> /\ json_pattern = 0 /\ json_matches = <<>>
    /\ json_result = None /\ json_pc = "idle"

IdleCrawl ==
    /\ base_url = None /\ max_pages = 0
    /\ to_visit = <<>> /\ visited_urls = {} /\ pages = <<>>
    /\ cur_url = NoUrl /\ fetch_log = <<>>
    /\ root_links = {} /\ seen_again = FALSE
    /\ crawl_pc = "idle"

IdlePhone ==
    /\ phone_in = None
    /\ scraper_once = None /\ scraper_twice = None
    /\ validator_once = None /\ validator_twice = None
    /\ wa_text = <<>> /\ wa_found = {}
    /\ phone_pc = "idle"

IdleRole ==
    /\ role_in = None /\ role_priority = None /\ role_pc = "idle"

IdlePeople ==
    /\ dm_in = <<>> /\ dm_out = <<>> /\ people_pc = "idle"

IdleQuality ==
    /\ q_fields = {} /\ q_people = <<>> /\ q_bonus = 0 /\ q_score = 0 /\ quality_pc = "idle"

IdleValidator ==
    /\ whatsapp_cache = <<>> /\ email_cache = <<>> /\ v_kind = "none" /\ v_input = None
    /\ v_result = None /\ v_known = FALSE /\ v_consulted = FALSE
    /\ v_outcomes = [syntax |-> "none", mx |-> "none", smtp |-> "none"]
    /\ v_calls = 0 /\ validator_pc = "off"

IdleSearch ==
    /\ permits = <<>>
    /\ job_engine = <<>>
    /\ job_searches = <<>>
    /\ job_pc = <<>>

IdleApi ==
    /\ api_n = 0
    /\ job_id = "none"
    /\ job_rows = {}
    /\ api_outcomes = <<>>
    /\ api_results = <<>>
    /\ api_calls = <<>>
    /\ progress_args = [processed |-> 0, successful |-> 0, failed |-> 0]
    /\ status_reply = "none"
    /\ api_i = 0
    /\ api_pc = "idle"

IdleShared ==
    /\ shared_visited = {}
    /\ t_base = <<>>
    /\ t_to_visit = <<>>
    /\ t_pages = <<>>
    /\ t_cur = <<>>
    /\ t_fetched = <<>>
    /\ t_marked = <<>>
    /\ t_foreign_skip = <<>>
    /\ t_pc = <<>>

IdleVerify ==
    /\ cfg_whatsapp = FALSE
    /\ cfg_email = FALSE
    /\ llm_people = <<>>
    /\ rec_people = <<>>
    /\ val_log = <<>>
    /\ rec_bonus = 0
    /\ verify_i = 0
    /\ verify_pc = "idle"

IdleAsync ==
    /\ es_n = 0
    /\ es_i = 0
    /\ es_successful = 0
    /\ es_failed = 0
    /\ es_persisted = <<>>
    /\ es_pc = "idle"

IdleOrder ==
    /\ o_graph = <<>>
    /\ o_fail = {}
    /\ o_max = 0
    /\ o_single = <<>>
    /\ o_double = <<>>
    /\ order_pc = "idle"


Range(s) == {s[i] : i \in 1..Len(s)}

\* All orderings of a finite set, as sequences without repetition.
RECURSIVE Perms(_)
Perms(S) ==
    IF S = {} THEN {<<>>}
    ELSE UNION {{<<x>> \o p : p \in Perms(S \ {x})} : x \in S}

(***************************************************************************)
(* URLs.  A URL is its netloc and the words of its path; the keyword test  *)
(* "kw in link_lower" of the traversal is a test on those words.           *)
(***************************************************************************)
PRIORITY_PAGES ==
    {"tentang-kami", "tentang", "profil", "struktur-organisasi", "pengurus", "kontak",
     "hubungi-kami", "hubungi", "visi-misi", "yayasan", "foundation", "about",
     "about-us", "organization", "structure", "leadership", "board", "team",
     "contact", "contact-us", "profile"}

Url(netloc, words) == [netloc |-> netloc, words |-> words]

HomeUrl    == Url("sekolah", {})
AboutUrl   == Url("sekolah", {"about"})
KontakUrl  == Url("sekolah", {"kontak"})
NewsUrl    == Url("sekolah", {"news"})
OtherUrl   == Url("lain", {"about"})

SiteUrls == {HomeUrl, AboutUrl, KontakUrl, NewsUrl}
AllUrls  == SiteUrls \cup {OtherUrl}

\* any(kw in link_lower for kw in config.PRIORITY_PAGES)
IsPriorityLink(link) == \E kw \in PRIORITY_PAGES : kw \in link.words

\* _extract_links: only the hrefs of the page's own netloc are kept
ExtractLinks(hrefs, page_url) == {h \in hrefs : h.netloc = page_url.netloc}

\* while to_visit and len(pages) < max_pages
LoopCondition(queue, got, limit) == queue # <<>> /\ Len(got) < limit

\* faulty variant: the first URL is read but stays in the list
PeekFront(queue) == queue

\* url = to_visit.pop(0): the list after the pop
PopFront(queue) == Tail(queue)

\* faulty variant: the URL is not added to the visited set
MarkVisitedForgets(visited, url) == visited

\* self.visited_urls.add(url)
MarkVisited(visited, url) == visited \cup {url}

\* link not in self.visited_urls and link not in to_visit
NotSeen(link, visited, queue) == link \notin visited /\ link \notin Range(queue)

\* faulty variant: priority links are appended at the back like the others
RECURSIVE InsertPriorityAtBack(_, _, _)
InsertPriorityAtBack(links, visited, queue) ==
    IF links = <<>> THEN queue
    ELSE InsertPriorityAtBack(Tail(links), visited,
                              IF NotSeen(Head(links), visited, queue)
                              THEN Append(queue, Head(links)) ELSE queue)

\* for link in priority_links: ... to_visit.insert(0, link)
RECURSIVE InsertPriority(_, _, _)
InsertPriority(links, visited, queue) ==
    IF links = <<>> THEN queue
    ELSE InsertPriority(Tail(links), visited,
                        IF NotSeen(Head(links), visited, queue)
                        THEN <<Head(links)>> \o queue ELSE queue)

\* for link in other_links: ... to_visit.append(link)
RECURSIVE AppendOther(_, _, _)
AppendOther(links, visited, queue) ==
    IF links = <<>> THEN queue
    ELSE AppendOther(Tail(links), visited,
                     IF NotSeen(Head(links), visited, queue)
                     THEN Append(queue, Head(links)) ELSE queue)

\* the classification loop over page.links, then the two insertion loops
Enqueue(links, visited, queue) ==
    LET priority_links == SelectSeq(links, IsPriorityLink)
        IsOther(l)     == ~IsPriorityLink(l) /\ l \notin visited
        other_links    == SelectSeq(links, IsOther)
    IN  AppendOther(other_links, visited, InsertPriority(priority_links, visited, queue))

\* what the traversal appends to pages for a fetched page
RecordPage(got, page) == IF page.success THEN Append(got, page) ELSE got

MaxPagesBound == 3

InitCrawl ==
    /\ base_url \in {HomeUrl, AboutUrl}
    /\ max_pages \in 0..MaxPagesBound
    /\ to_visit = <<>>
    /\ visited_urls = {}
    /\ pages = <<>>
    /\ cur_url = NoUrl
    /\ fetch_log = <<>>
    /\ root_links = {}
    /\ seen_again = FALSE
    /\ crawl_pc = "start"
    /\ IdlePhone /\ IdleJson /\ IdleEngine /\ IdleMerge /\ IdleRole /\ IdlePeople /\ IdleQuality /\ IdleValidator /\ IdleSearch /\ IdleApi /\ IdleShared /\ IdleVerify /\ IdleAsync /\ IdleOrder

\* pages = []; to_visit = [base_url]; self.visited_urls = set()
CrawlStart ==
    /\ crawl_pc = "start"
    /\ pages' = <<>>
    /\ to_visit' = <<base_url>>
    /\ visited_urls' = {}
    /\ crawl_pc' = "loop"
    /\ UNCHANGED <<base_url, max_pages, cur_url, fetch_log, root_links, seen_again, notCrawl>>

\* one pass from the loop test to the await of scrape_page
CrawlPop ==
    /\ crawl_pc = "loop"
    /\ LoopCondition(to_visit, pages, max_pages)
    /\ LET url == Head(to_visit) IN
        /\ to_visit' = PopFront(to_visit)
        /\ IF url \in visited_urls
           THEN UNCHANGED <<visited_urls, cur_url, crawl_pc>>
           ELSE /\ visited_urls' = MarkVisited(visited_urls, url)
                /\ IF url.netloc # base_url.netloc
                   THEN UNCHANGED <<cur_url, crawl_pc>>
                   ELSE cur_url' = url /\ crawl_pc' = "fetch"
    /\ UNCHANGED <<base_url, max_pages, pages, fetch_log, root_links, seen_again, notCrawl>>

\* scrape_page returns; the page is recorded and its links are queued
CrawlFetch ==
    /\ crawl_pc = "fetch"
    /\ \E ok \in BOOLEAN, hrefs \in SUBSET AllUrls :
         \E links \in Perms(IF ok THEN ExtractLinks(hrefs, cur_url) ELSE {}) :
            LET page == [url |-> cur_url, success |-> ok] IN
            /\ fetch_log' = Append(fetch_log, [url |-> cur_url, success |-> ok])
            /\ pages' = RecordPage(pages, page)
            /\ to_visit' = IF ok THEN Enqueue(links, visited_urls, to_visit) ELSE to_visit
            /\ root_links' = IF fetch_log = <<>> THEN Range(links) ELSE root_links
            /\ seen_again' = (seen_again \/ (fetch_log # <<>> /\ Range(links) \cap visited_urls # {}))
    /\ cur_url' = NoUrl
    /\ crawl_pc' = "sleep"
    /\ UNCHANGED <<base_url, max_pages, visited_urls, notCrawl>>

\* await asyncio.sleep(self.delay)
CrawlSleep ==
    /\ crawl_pc = "sleep"
    /\ crawl_pc' = "loop"
    /\ UNCHANGED <<base_url, max_pages, to_visit, visited_urls, pages, cur_url, fetch_log,
                   root_links, seen_again, notCrawl>>

\* the loop test fails: return pages
CrawlReturn ==
    /\ crawl_pc = "loop"
    /\ ~LoopCondition(to_visit, pages, max_pages)
    /\ crawl_pc' = "done"
    /\ UNCHANGED <<base_url, max_pages, to_visit, visited_urls, pages, cur_url, fetch_log,
                   root_links, seen_again, notCrawl>>

NextCrawl == CrawlStart \/ CrawlPop \/ CrawlFetch \/ CrawlSleep \/ CrawlReturn

SpecCrawl == InitCrawl /\ [][NextCrawl]_vars

\* the event loop resumes the coroutine whenever the awaited fetch or sleep
\* has finished, so a step that can be taken is eventually taken
SpecCrawlLive == SpecCrawl /\ WF_vars(NextCrawl)

(***************************************************************************)
(* Strings.  A string is a sequence of characters; the link prefixes and   *)
(* the label that the WhatsApp patterns look for are single tokens.        *)
(***************************************************************************)
Digits == {"0", "1", "2", "3", "4", "5", "6", "7", "8", "9"}

IsDigit(c) == c \in Digits

\* [^\d+] is removed: digits and "+" are kept
IsDigitOrPlus(c) == c \in Digits \cup {"+"}

\* re.sub(r'[^\d+]', '', phone)
Cleaned(phone) == SelectSeq(phone, IsDigitOrPlus)

\* str.startswith
StartsWith(str, prefix) ==
    Len(str) >= Len(prefix) /\ SubSeq(str, 1, Len(prefix)) = prefix

\* cleaned[1:]
DropFirst(str) == SubSeq(str, 2, Len(str))

MinPhoneLen == 10

\* faulty variant: a number already in +62 form is not recognised
NormalizeWithoutPlus62(phone) ==
    IF phone = None \/ phone = <<>> THEN None
    ELSE LET cleaned == Cleaned(phone) IN
         IF Len(cleaned) < MinPhoneLen THEN None
         ELSE IF StartsWith(cleaned, <<"0", "8">>) THEN <<"+", "6", "2">> \o DropFirst(cleaned)
         ELSE IF StartsWith(cleaned, <<"6", "2">>) THEN <<"+">> \o cleaned
         ELSE IF StartsWith(cleaned, <<"0">>) THEN <<"+", "6", "2">> \o DropFirst(cleaned)
         ELSE None

\* WebScraper._normalize_indonesian_phone
NormalizeIndonesianPhone(phone) ==
    IF phone = None \/ phone = <<>> THEN None
    ELSE LET cleaned == Cleaned(phone) IN
         IF Len(cleaned) < MinPhoneLen THEN None
         ELSE IF StartsWith(cleaned, <<"0", "8">>) THEN <<"+", "6", "2">> \o DropFirst(cleaned)
         ELSE IF StartsWith(cleaned, <<"6", "2">>) /\ ~StartsWith(cleaned, <<"+">>)
              THEN <<"+">> \o cleaned
         ELSE IF StartsWith(cleaned, <<"+", "6", "2">>) THEN cleaned
         ELSE IF StartsWith(cleaned, <<"0">>) THEN <<"+", "6", "2">> \o DropFirst(cleaned)
         ELSE None

\* ContactValidator._normalize_phone
ValidatorNormalizePhone(phone) ==
    IF phone = None \/ phone = <<>> THEN None
    ELSE LET cleaned == Cleaned(phone) IN
         IF StartsWith(cleaned, <<"0", "8">>) THEN <<"+", "6", "2">> \o DropFirst(cleaned)
         ELSE IF StartsWith(cleaned, <<"6", "2">>) /\ ~StartsWith(cleaned, <<"+">>)
              THEN <<"+">> \o cleaned
         ELSE IF StartsWith(cleaned, <<"+", "6", "2">>) THEN cleaned
         ELSE None

WaMeTok  == "wa.me/"
ApiTok   == "api.whatsapp.com/send?phone="
LabelTok == "WA"

\* the length of the run of characters of chars that starts at text[i]
RECURSIVE RunLen(_, _, _)
RunLen(text, i, chars) ==
    IF i > Len(text) \/ text[i] \notin chars THEN 0 ELSE 1 + RunLen(text, i + 1, chars)

\* the prefix of a link number as extract_whatsapp_links writes it
LinkNumber(num) ==
    IF StartsWith(num, <<"6", "2">>) THEN <<"+">> \o num ELSE <<"+", "6", "2">> \o num

\* re.finditer(tok + r'(\d+)', text) from position i: the numbers appended
RECURSIVE LinkMatches(_, _, _)
LinkMatches(text, tok, i) ==
    IF i >= Len(text) THEN {}
    ELSE IF text[i] = tok /\ IsDigit(text[i + 1])
         THEN LET n == RunLen(text, i + 1, Digits) IN
              {LinkNumber(SubSeq(text, i + 1, i + n))} \cup LinkMatches(text, tok, i + n + 1)
         ELSE LinkMatches(text, tok, i + 1)

LabelSeps   == {":", " "}
NumberChars == Digits \cup {" ", "-", "(", ")"}

\* re.finditer(r'(?:WA|WhatsApp|Whatsapp)[:\s]*([+]?[\d\s\-()]+)', text) from i:
\* the normalised numbers appended.  (When the group can only start on a blank
\* given back by [:\s]*, it holds blanks alone, cleans to the empty string and
\* adds nothing: that case is the run = 0 branch.)
RECURSIVE LabelMatches(_, _)
LabelMatches(text, i) ==
    IF i >= Len(text) THEN {}
    ELSE IF text[i] # LabelTok THEN LabelMatches(text, i + 1)
    ELSE LET start == i + 1 + RunLen(text, i + 1, LabelSeps)
             plus  == IF start <= Len(text) /\ text[start] = "+"
                         /\ RunLen(text, start + 1, NumberChars) > 0
                      THEN 1 ELSE 0
             run   == RunLen(text, start + plus, NumberChars)
         IN  IF run = 0 THEN LabelMatches(text, i + 1)
             ELSE LET raw_num    == Cleaned(SubSeq(text, start, start + plus + run - 1))
                      normalized == NormalizeIndonesianPhone(raw_num)
                  IN  (IF normalized # None THEN {normalized} ELSE {})
                          \cup LabelMatches(text, start + plus + run)

\* WebScraper.extract_whatsapp_links
ExtractWhatsappLinks(text) ==
    LinkMatches(text, WaMeTok, 1) \cup LinkMatches(text, ApiTok, 1) \cup LabelMatches(text, 1)

(***************************************************************************)
(* The inputs of the normalisation runs: a prefix of arbitrary characters, *)
(* a run of digits, and an optional trailing character.                    *)
(***************************************************************************)
PhoneChars == {"0", "8", "6", "2", "5", "+", "-"}

MaxPrefixLen == 3
MaxFillLen == 8

RECURSIVE Strings(_, _)
Strings(chars, n) ==
    IF n = 0 THEN {<<>>}
    ELSE Strings(chars, n - 1) \cup {Append(str, c) : str \in Strings(chars, n - 1), c \in chars}

Fill(k) == [i \in 1..k |-> "5"]

PhoneInputs ==
    {prefix \o Fill(k) \o suffix :
        prefix \in Strings(PhoneChars, MaxPrefixLen), k \in 0..MaxFillLen,
        suffix \in {<<>>, <<"+">>, <<"-">>}}

InitPhone ==
    /\ phone_in \in PhoneInputs
    /\ scraper_once = None /\ scraper_twice = None
    /\ validator_once = None /\ validator_twice = None
    /\ wa_text = <<>> /\ wa_found = {}
    /\ phone_pc = "input"
    /\ IdleCrawl /\ IdleJson /\ IdleEngine /\ IdleMerge /\ IdleRole /\ IdlePeople /\ IdleQuality /\ IdleValidator /\ IdleSearch /\ IdleApi /\ IdleShared /\ IdleVerify /\ IdleAsync /\ IdleOrder

\* normalized = self._normalize_indonesian_phone(raw)
ScraperNormalize ==
    /\ phone_pc = "input"
    /\ scraper_once' = NormalizeIndonesianPhone(phone_in)
    /\ phone_pc' = "scraper_once"
    /\ UNCHANGED <<phone_in, scraper_twice, validator_once, validator_twice, wa_text, wa_found,
                   notPhone>>

\* the extractor's normaliser applied to its own result
ScraperNormalizeAgain ==
    /\ phone_pc = "scraper_once"
    /\ scraper_twice' = NormalizeIndonesianPhone(scraper_once)
    /\ phone_pc' = "scraper_twice"
    /\ UNCHANGED <<phone_in, scraper_once, validator_once, validator_twice, wa_text, wa_found,
                   notPhone>>

\* normalized = self._normalize_phone(phone_number)
ValidatorNormalize ==
    /\ phone_pc = "scraper_twice"
    /\ validator_once' = ValidatorNormalizePhone(phone_in)
    /\ phone_pc' = "validator_once"
    /\ UNCHANGED <<phone_in, scraper_once, scraper_twice, validator_twice, wa_text, wa_found,
                   notPhone>>

\* the validator's normaliser applied to its own result
ValidatorNormalizeAgain ==
    /\ phone_pc = "validator_once"
    /\ validator_twice' = ValidatorNormalizePhone(validator_once)
    /\ phone_pc' = "validator_twice"
    /\ UNCHANGED <<phone_in, scraper_once, scraper_twice, validator_once, wa_text, wa_found,
                   notPhone>>

\* extract_whatsapp_links on a text holding the input after a wa.me link, a
\* chat-API link or a "WA" label
ExtractWhatsapp ==
    /\ phone_pc = "validator_twice"
    /\ \E tok \in {WaMeTok, ApiTok, LabelTok} :
          /\ wa_text' = <<tok>> \o phone_in
          /\ wa_found' = ExtractWhatsappLinks(<<tok>> \o phone_in)
    /\ phone_pc' = "extracted"
    /\ UNCHANGED <<phone_in, scraper_once, scraper_twice, validator_once, validator_twice,
                   notPhone>>

NextPhone ==
    \/ ScraperNormalize \/ ScraperNormalizeAgain
    \/ ValidatorNormalize \/ ValidatorNormalizeAgain
    \/ ExtractWhatsapp

SpecPhone == InitPhone /\ [][NextPhone]_vars

(***************************************************************************)
(* LLMExtractor._extract_json.  The response text is a sequence of tokens: *)
(* a code fence, the word json, braces, a key with its colon, a scalar and *)
(* white space.                                                            *)
(***************************************************************************)
\* the three backquotes that open and close a code block
Fence    == "FENCE"
JsonWord == "json"
KeyTok   == "key:"
NullTok  == "null"
Blank    == " "

JsonTokens == {Fence, JsonWord, "{", "}", KeyTok, NullTok, Blank}

NotBlank(c) == c # Blank

\* the index after the JSON value that starts at t[i], 0 when there is none
RECURSIVE ParseValue(_, _)
ParseValue(t, i) ==
    IF i > Len(t) THEN 0
    ELSE IF t[i] = NullTok THEN i + 1
    ELSE IF t[i] # "{" THEN 0
    ELSE IF i + 1 <= Len(t) /\ t[i + 1] = "}" THEN i + 2
    ELSE IF i + 1 <= Len(t) /\ t[i + 1] = KeyTok
         THEN LET after == ParseValue(t, i + 2) IN
              IF after # 0 /\ after <= Len(t) /\ t[after] = "}" THEN after + 1 ELSE 0
    ELSE 0

\* json.loads(str) does not raise JSONDecodeError: one value, blanks ignored
IsValidJson(str) ==
    LET t == SelectSeq(str, NotBlank) IN ParseValue(t, 1) = Len(t) + 1

\* the try / except json.JSONDecodeError around json.loads
Loads(str) == IsValidJson(str)

\* the index of the first token tok at or after i, 0 when there is none
RECURSIVE IndexFrom(_, _, _)
IndexFrom(text, tok, i) ==
    IF i > Len(text) THEN 0
    ELSE IF text[i] = tok THEN i ELSE IndexFrom(text, tok, i + 1)

\* the index of the last token tok at or before i, 0 when there is none
RECURSIVE LastIndexUpTo(_, _, _)
LastIndexUpTo(text, tok, i) ==
    IF i < 1 THEN 0
    ELSE IF text[i] = tok THEN i ELSE LastIndexUpTo(text, tok, i - 1)

\* the number of blanks that end text[from .. to]
RECURSIVE TrailingBlanks(_, _, _)
TrailingBlanks(text, from, to) ==
    IF to < from \/ text[to] # Blank THEN 0 ELSE 1 + TrailingBlanks(text, from, to - 1)

\* re.findall(r'FENCE json\s*([\s\S]*?)\s*FENCE', text) when with_json, else
\* re.findall(r'FENCE\s*([\s\S]*?)\s*FENCE', text), scanning from i
RECURSIVE FencedBlocks(_, _, _)
FencedBlocks(text, with_json, i) ==
    IF i > Len(text) THEN <<>>
    ELSE IF ~(text[i] = Fence /\ (~with_json \/ (i < Len(text) /\ text[i + 1] = JsonWord)))
         THEN FencedBlocks(text, with_json, i + 1)
    ELSE LET body  == i + 1 + (IF with_json THEN 1 ELSE 0)
             close == IndexFrom(text, Fence, body)
         IN  IF close = 0 THEN <<>>
             ELSE LET start == body + RunLen(text, body, {Blank})
                      stop  == close - 1 - TrailingBlanks(text, start, close - 1)
                  IN  <<SubSeq(text, start, stop)>> \o FencedBlocks(text, with_json, close + 1)

\* re.findall(r'(\{[\s\S]*\})', text): from the first "{" to the last "}"
BraceSubstring(text) ==
    LET first == IndexFrom(text, "{", 1)
        last  == LastIndexUpTo(text, "}", Len(text))
    IN  IF first # 0 /\ last > first THEN <<SubSeq(text, first, last)>> ELSE <<>>

\* faulty variant: the brace pattern is tried before the fenced blocks
PatternsBracesFirst == <<"braces", "fenced_json", "fenced">>

\* the list patterns of _extract_json, in its order
Patterns == <<"fenced_json", "fenced", "braces">>

\* re.findall(pattern, text, re.DOTALL)
FindAll(pattern, text) ==
    CASE pattern = "fenced_json" -> FencedBlocks(text, TRUE, 1)
      [] pattern = "fenced"      -> FencedBlocks(text, FALSE, 1)
      [] pattern = "braces"      -> BraceSubstring(text)

MaxTextLen == 5

InitJson ==
    /\ json_text \in Strings(JsonTokens, MaxTextLen)
    /\ json_pattern = 1
    /\ json_matches = <<>>
    /\ json_result = None
    /\ json_pc = "patterns"
    /\ IdleCrawl /\ IdlePhone /\ IdleEngine /\ IdleMerge /\ IdleRole /\ IdlePeople /\ IdleQuality /\ IdleValidator /\ IdleSearch /\ IdleApi /\ IdleShared /\ IdleVerify /\ IdleAsync /\ IdleOrder

\* for pattern in patterns: matches = re.findall(pattern, text, re.DOTALL)
JsonFindAll ==
    /\ json_pc = "patterns"
    /\ json_matches' = FindAll(Patterns[json_pattern], json_text)
    /\ json_pc' = "matches"
    /\ UNCHANGED <<json_text, json_pattern, json_result, notJson>>

\* for match in matches: try json.loads(match); return match / except: continue
JsonTryMatch ==
    /\ json_pc = "matches"
    /\ json_matches # <<>>
    /\ IF Loads(Head(json_matches))
       THEN /\ json_result' = Head(json_matches)
            /\ json_pc' = "done"
            /\ UNCHANGED json_matches
       ELSE /\ json_matches' = Tail(json_matches)
            /\ UNCHANGED <<json_result, json_pc>>
    /\ UNCHANGED <<json_text, json_pattern, notJson>>

\* the matches of the pattern are exhausted: the next pattern, or the whole text
JsonNextPattern ==
    /\ json_pc = "matches"
    /\ json_matches = <<>>
    /\ IF json_pattern < Len(Patterns)
       THEN json_pattern' = json_pattern + 1 /\ json_pc' = "patterns"
       ELSE json_pc' = "whole" /\ UNCHANGED json_pattern
    /\ UNCHANGED <<json_text, json_matches, json_result, notJson>>

\* try: json.loads(text); return text / except: pass; return None
JsonTryWhole ==
    /\ json_pc = "whole"
    /\ json_result' = IF Loads(json_text) THEN json_text ELSE None
    /\ json_pc' = "done"
    /\ UNCHANGED <<json_text, json_pattern, json_matches, notJson>>

NextJson == JsonFindAll \/ JsonTryMatch \/ JsonNextPattern \/ JsonTryWhole

SpecJson == InitJson /\ [][NextJson]_vars

(***************************************************************************)
(* LeadEnrichmentEngine.enrich_school and enrich_batch.  Each phase of     *)
(* enrich_school awaits collaborators and may raise; the handler of the    *)
(* try block turns the exception into a failed ProcessingResult.           *)
(***************************************************************************)
SEARCHING  == "searching"
SCRAPING   == "scraping"
EXTRACTING == "extracting"
COMPLETED  == "completed"
FAILED     == "failed"
PENDING    == "pending"

SchoolNames == {"PPPK Petra", "SMA Lain"}

\* str(e) of the exceptions a phase can raise; some have an empty message
ErrorMessages == {<<"t", "i", "m", "e", "o", "u", "t">>, <<>>}

\* ProcessingResult(school_input=school, status=ProcessingStatus.SEARCHING)
NewResult(school) ==
    [school_input |-> school, status |-> SEARCHING, error_message |-> None,
     school_data |-> None]

\* faulty variant: the handler records the message and leaves the status
OnExceptionKeepsStatus(res, message) ==
    [res EXCEPT !.error_message = message]

\* except Exception as e: result.status = FAILED; result.error_message = str(e)
OnException(res, message) ==
    [res EXCEPT !.status = FAILED, !.error_message = message]

\* result.school_data = school_data; result.status = ProcessingStatus.COMPLETED
OnComplete(res, data) ==
    [res EXCEPT !.school_data = data, !.status = COMPLETED]

\* SchoolData(school_name=..., school_type=..., location=...): the basic
\* structure built from the input alone
SchoolData(school) == <<"SchoolData", school>>

\* SchoolData(**data): the record parsed from the provider's JSON
ParsedSchoolData(school) == <<"SchoolData", school, "parsed">>

\* the basic structure with processing_notes = "Extraction error: ..."
ErrorSchoolData(school) == <<"SchoolData", school, "Extraction error">>

\* what the provider does: a JSON object of the record, a text _extract_json
\* finds no JSON in, an exception of chain.ainvoke, or JSON that json.loads or
\* SchoolData(**data) rejects with an exception
ProviderOutcomes == {"parsed", "unparseable", "call_failed", "invalid_record"}

\* faulty variant: the exception of the provider leaves no record
ExtractWithoutStub(school, outcome) ==
    CASE outcome = "parsed"      -> ParsedSchoolData(school)
      [] outcome = "unparseable" -> SchoolData(school)
      [] OTHER                   -> None

\* the value extract_school_data returns
ExtractSchoolData(school, outcome) ==
    CASE outcome = "parsed"      -> ParsedSchoolData(school)
      [] outcome = "unparseable" -> SchoolData(school)
      [] OTHER                   -> ErrorSchoolData(school)

\* faulty variant: a result that is not completed is not counted
TallyWithoutElse(batch, res) ==
    IF res.status = COMPLETED
    THEN [batch EXCEPT !.successful = @ + 1]
    ELSE batch

\* if result.status == COMPLETED: successful += 1 else: failed += 1
Tally(batch, res) ==
    IF res.status = COMPLETED
    THEN [batch EXCEPT !.successful = @ + 1]
    ELSE [batch EXCEPT !.failed = @ + 1]

\* batch_result.results.append(result), then the counters
Collect(batch, res) ==
    Tally([batch EXCEPT !.results = Append(@, res)], res)

MaxSchools == 3

Init ==
    /\ schools \in Strings(SchoolNames, MaxSchools)
    /\ validate_on \in BOOLEAN
    /\ batch_result = None
    /\ batch_i = 0
    /\ batch_pc = "start"
    /\ result = None /\ official_url = None /\ school_data = None
    /\ raised_in = None /\ provider = None /\ enrich_pc = "idle"
    /\ IdleCrawl /\ IdlePhone /\ IdleJson /\ IdleMerge /\ IdleRole /\ IdlePeople /\ IdleQuality /\ IdleValidator /\ IdleSearch /\ IdleApi /\ IdleShared /\ IdleVerify /\ IdleAsync /\ IdleOrder

\* batch_result = BatchResult(total_schools=len(schools), successful=0, failed=0, results=[])
BatchStart ==
    /\ batch_pc = "start"
    /\ batch_result' = [total_schools |-> Len(schools), successful |-> 0, failed |-> 0,
                        results |-> <<>>]
    /\ batch_i' = 1
    /\ batch_pc' = "loop"
    /\ UNCHANGED <<schools, validate_on, result, official_url, school_data, raised_in, provider,
                   enrich_pc, notEngine>>

\* for i, school in enumerate(schools, 1): result = await self.enrich_school(school)
BatchCall ==
    /\ batch_pc = "loop"
    /\ batch_i <= Len(schools)
    /\ result' = NewResult(schools[batch_i])
    /\ official_url' = None
    /\ school_data' = None
    /\ raised_in' = None
    /\ provider' = None
    /\ enrich_pc' = "search"
    /\ batch_pc' = "enrich"
    /\ UNCHANGED <<schools, validate_on, batch_result, batch_i, notEngine>>

\* an exception raised in the phase at enrich_pc reaches the handler, which
\* returns the result
Raises ==
    \E message \in ErrorMessages :
        /\ result' = OnException(result, message)
        /\ raised_in' = <<enrich_pc>>
        /\ enrich_pc' = "returned"
        /\ UNCHANGED <<schools, validate_on, batch_result, batch_i, batch_pc, official_url,
                       school_data, provider, notEngine>>

\* PHASE 1: search_school, find_official_website, fetch_google_maps_data (whose
\* exceptions are caught on the spot), then the Linktree pages
SearchPhase ==
    /\ enrich_pc = "search"
    /\ \/ Raises
       \/ /\ official_url' \in {None, <<"h", "t", "t", "p">>}
          /\ enrich_pc' = "linktree"
          /\ UNCHANGED <<schools, validate_on, batch_result, batch_i, batch_pc, result,
                         school_data, raised_in, provider, notEngine>>

\* find_linktree_urls, scrape_linktree; then if official_url: status = SCRAPING
LinktreePhase ==
    /\ enrich_pc = "linktree"
    /\ \/ Raises
       \/ /\ IF official_url # None
             THEN result' = [result EXCEPT !.status = SCRAPING] /\ enrich_pc' = "scrape"
             ELSE result' = [result EXCEPT !.status = EXTRACTING] /\ enrich_pc' = "extract"
          /\ UNCHANGED <<schools, validate_on, batch_result, batch_i, batch_pc, official_url,
                         school_data, raised_in, provider, notEngine>>

\* PHASE 2: scrape_school_website, PDFs, contact extraction; then status = EXTRACTING
ScrapePhase ==
    /\ enrich_pc = "scrape"
    /\ \/ Raises
       \/ /\ result' = [result EXCEPT !.status = EXTRACTING]
          /\ enrich_pc' = "extract"
          /\ UNCHANGED <<schools, validate_on, batch_result, batch_i, batch_pc, official_url,
                         school_data, raised_in, provider, notEngine>>

\* PHASE 3: school_data = await self.extractor.extract_school_data(...); the
\* prompt is built before the try block of extract_school_data, the provider is
\* called inside it
ExtractPhase ==
    /\ enrich_pc = "extract"
    /\ \/ Raises
       \/ /\ \E outcome \in ProviderOutcomes :
                /\ provider' = <<outcome>>
                /\ school_data' = ExtractSchoolData(result.school_input, outcome)
          /\ enrich_pc' = "merge"
          /\ UNCHANGED <<schools, validate_on, batch_result, batch_i, batch_pc, result,
                         official_url, raised_in, notEngine>>

\* PHASE 4: merge, validate_and_deduplicate
MergePhase ==
    /\ enrich_pc = "merge"
    /\ \/ Raises
       \/ /\ enrich_pc' = IF validate_on THEN "validate" ELSE "complete"
          /\ UNCHANGED <<schools, validate_on, batch_result, batch_i, batch_pc, result,
                         official_url, school_data, raised_in, provider, notEngine>>

\* PHASE 3.5: verify_whatsapp, verify_email_live, calculate_quality_score
ValidatePhase ==
    /\ enrich_pc = "validate"
    /\ \/ Raises
       \/ /\ enrich_pc' = "complete"
          /\ UNCHANGED <<schools, validate_on, batch_result, batch_i, batch_pc, result,
                         official_url, school_data, raised_in, provider, notEngine>>

\* result.school_data = school_data; result.status = COMPLETED; return result
Complete ==
    /\ enrich_pc = "complete"
    /\ result' = OnComplete(result, school_data)
    /\ enrich_pc' = "returned"
    /\ UNCHANGED <<schools, validate_on, batch_result, batch_i, batch_pc, official_url,
                   school_data, raised_in, provider, notEngine>>

\* back in enrich_batch: append the result, count it; sleep unless it was the last
BatchCollect ==
    /\ batch_pc = "enrich"
    /\ enrich_pc = "returned"
    /\ batch_result' = Collect(batch_result, result)
    /\ enrich_pc' = "idle"
    /\ IF batch_i < Len(schools)
       THEN batch_pc' = "sleep" /\ UNCHANGED batch_i
       ELSE batch_pc' = "loop" /\ batch_i' = batch_i + 1
    /\ UNCHANGED <<schools, validate_on, result, official_url, school_data, raised_in, provider,
                   notEngine>>

\* await asyncio.sleep(delay_between_schools)
BatchSleep ==
    /\ batch_pc = "sleep"
    /\ batch_i' = batch_i + 1
    /\ batch_pc' = "loop"
    /\ UNCHANGED <<schools, validate_on, batch_result, result, official_url, school_data,
                   raised_in, provider, enrich_pc, notEngine>>

\* the loop is over: return batch_result
BatchReturn ==
    /\ batch_pc = "loop"
    /\ batch_i > Len(schools)
    /\ batch_pc' = "done"
    /\ UNCHANGED <<schools, validate_on, batch_result, batch_i, result, official_url,
                   school_data, raised_in, provider, enrich_pc, notEngine>>

Next ==
    \/ BatchStart \/ BatchCall
    \/ SearchPhase \/ LinktreePhase \/ ScrapePhase \/ ExtractPhase \/ MergePhase
    \/ ValidatePhase \/ Complete
    \/ BatchCollect \/ BatchSleep \/ BatchReturn

Spec == Init /\ [][Next]_vars

(***************************************************************************)
(* The WhatsApp values of a SchoolData: the provider's JSON is parsed      *)
(* (DecisionMaker validates whatsapp, SchoolData takes whatsapp_business   *)
(* as it is), the crawled page is searched for numbers, and enrich_school  *)
(* merges them with the Google Maps phone.                                 *)
(***************************************************************************)
\* Python truthiness of an Optional[str]
Truthy(str) == str # None /\ str # <<>>

\* re.search(tok + r'(\d+)', v): the digits after the first such link, or None
RECURSIVE SearchLinkDigits(_, _, _)
SearchLinkDigits(v, tok, i) ==
    IF i >= Len(v) THEN None
    ELSE IF v[i] = tok /\ IsDigit(v[i + 1])
         THEN SubSeq(v, i + 1, i + RunLen(v, i + 1, Digits))
         ELSE SearchLinkDigits(v, tok, i + 1)

\* DecisionMaker.normalize_whatsapp
NormalizeWhatsapp(v) ==
    IF ~Truthy(v) THEN None
    ELSE LET wa_me_match == SearchLinkDigits(v, WaMeTok, 1)
             api_match   == SearchLinkDigits(v, ApiTok, 1)
             cleaned     == Cleaned(v)
         IN  IF wa_me_match # None THEN <<"+">> \o wa_me_match
             ELSE IF api_match # None THEN <<"+">> \o api_match
             ELSE IF StartsWith(cleaned, <<"0", "8">>)
                  THEN <<"+", "6", "2">> \o DropFirst(cleaned)
             ELSE IF StartsWith(cleaned, <<"6", "2">>) THEN <<"+">> \o cleaned
             ELSE IF StartsWith(cleaned, <<"+", "6", "2">>) THEN cleaned
             ELSE v

\* the numbers a provider, a page or Google Maps can show
LocalMobile   == <<"0", "8">> \o Fill(9)
PlusMobile    == <<"+", "6", "2", "8">> \o Fill(9)
BareMobile    == <<"6", "2", "8">> \o Fill(9)
SpacedMobile  == <<"+", "6", "2", " ", "8", "5", "5", "-">> \o Fill(6)
Landline      == <<"(", "0", "3", "1", ")", " ">> \o Fill(7)
ForeignNumber == <<"+", "1">> \o Fill(9)
WaMeLocal     == <<WaMeTok>> \o LocalMobile
WaMeBare      == <<WaMeTok>> \o BareMobile

ProviderNumbers ==
    {None, LocalMobile, PlusMobile, BareMobile, SpacedMobile, Landline, ForeignNumber,
     WaMeLocal, WaMeBare}

PageTexts == {<<>>, WaMeBare, <<LabelTok, ":", " ">> \o LocalMobile}

MapsPhones == {None, <<>>, PlusMobile, SpacedMobile, Landline}

\* the urls of the parsed record and of the scraped pages
PageUrlLower == <<"s", "c", "h", ".", "i", "d", "/", "a">>
PageUrlUpper == <<"S", "C", "H", ".", "I", "D", "/", "A">>
StaffUrl     == <<"s", "c", "h", ".", "i", "d", "/", "s", "t", "a", "f">>

ProviderSources == {<<>>, <<PageUrlLower>>, <<PageUrlUpper>>, <<StaffUrl>>}

ProviderPhones == {<<>>, <<Landline>>, <<SpacedMobile, SpacedMobile>>}

ScrapedUrls ==
    {<<>>, <<PageUrlLower>>, <<PageUrlLower, StaffUrl>>, <<PageUrlLower, PageUrlUpper>>}

\* list(set(values)): the distinct values, in an order the program does not fix
ListOfSet(values) == Perms(Range(values))

InitMerge ==
    /\ llm_business \in ProviderNumbers
    /\ llm_person \in ProviderNumbers
    /\ llm_sources \in ProviderSources
    /\ llm_phones \in ProviderPhones
    /\ page_urls \in ScrapedUrls
    /\ page_text \in (IF page_urls = <<>> THEN {<<>>} ELSE PageTexts)
    /\ maps_phone \in MapsPhones
    /\ whatsapp_numbers = {}
    /\ whatsapp_business = None
    /\ person_whatsapp = None
    /\ phone_numbers = <<>>
    /\ source_urls = <<>>
    /\ merge_pc = "parse"
    /\ IdleCrawl /\ IdlePhone /\ IdleJson /\ IdleEngine /\ IdleRole /\ IdlePeople /\ IdleQuality /\ IdleValidator /\ IdleSearch /\ IdleApi /\ IdleShared /\ IdleVerify /\ IdleAsync /\ IdleOrder

\* dms.append(DecisionMaker(**dm)); school_data = SchoolData(**data)
ParseProvider ==
    /\ merge_pc = "parse"
    /\ person_whatsapp' = NormalizeWhatsapp(llm_person)
    /\ whatsapp_business' = llm_business
    /\ phone_numbers' = llm_phones
    /\ source_urls' = llm_sources
    /\ merge_pc' = "crawl"
    /\ UNCHANGED <<llm_business, llm_person, page_text, maps_phone, whatsapp_numbers,
                   llm_sources, llm_phones, page_urls, notMerge>>

\* whatsapp_numbers.extend(self.scraper.extract_whatsapp_links(...))
CrawlContacts ==
    /\ merge_pc = "crawl"
    /\ whatsapp_numbers' = ExtractWhatsappLinks(page_text)
    /\ merge_pc' = "merge"
    /\ UNCHANGED <<llm_business, llm_person, page_text, maps_phone, whatsapp_business,
                   person_whatsapp, phone_numbers, llm_sources, llm_phones, page_urls,
                   source_urls, notMerge>>

\* all_whatsapp = set(whatsapp_numbers) plus the record's own values;
\* if all_whatsapp and not whatsapp_business: whatsapp_business = list(all_whatsapp)[0]
MergeWhatsapp ==
    /\ merge_pc = "merge"
    /\ LET all_whatsapp ==
               whatsapp_numbers
                   \cup (IF Truthy(whatsapp_business) THEN {whatsapp_business} ELSE {})
                   \cup (IF Truthy(person_whatsapp) THEN {person_whatsapp} ELSE {})
       IN  IF all_whatsapp # {} /\ ~Truthy(whatsapp_business)
           THEN whatsapp_business' \in all_whatsapp
           ELSE UNCHANGED whatsapp_business
    /\ merge_pc' = "sources"
    /\ UNCHANGED <<llm_business, llm_person, page_text, maps_phone, whatsapp_numbers,
                   person_whatsapp, phone_numbers, llm_sources, llm_phones, page_urls,
                   source_urls, notMerge>>

\* school_data.source_urls = list(set(source_urls)), the local list of page urls
MergeSources ==
    /\ merge_pc = "sources"
    /\ source_urls' \in ListOfSet(page_urls)
    /\ merge_pc' = "maps"
    /\ UNCHANGED <<llm_business, llm_person, page_text, maps_phone, whatsapp_numbers,
                   whatsapp_business, person_whatsapp, phone_numbers, llm_sources,
                   llm_phones, page_urls, notMerge>>

\* if google_maps_data and google_maps_data.get("phone"): ...
MergeMaps ==
    /\ merge_pc = "maps"
    /\ IF ~Truthy(maps_phone)
       THEN UNCHANGED <<whatsapp_business, phone_numbers>>
       ELSE IF ~Truthy(whatsapp_business)
            THEN whatsapp_business' = maps_phone /\ UNCHANGED phone_numbers
            ELSE /\ phone_numbers' = IF maps_phone \in Range(phone_numbers)
                                      THEN phone_numbers
                                      ELSE Append(phone_numbers, maps_phone)
                 /\ UNCHANGED whatsapp_business
    /\ merge_pc' = "dedup"
    /\ UNCHANGED <<llm_business, llm_person, page_text, maps_phone, whatsapp_numbers,
                   person_whatsapp, llm_sources, llm_phones, page_urls, source_urls,
                   notMerge>>

\* validate_and_deduplicate: phone_numbers = list(set(phone_numbers)) and
\* source_urls = list(set(source_urls))
DeduplicateLists ==
    /\ merge_pc = "dedup"
    /\ phone_numbers' \in ListOfSet(phone_numbers)
    /\ source_urls' \in ListOfSet(source_urls)
    /\ merge_pc' = "done"
    /\ UNCHANGED <<llm_business, llm_person, page_text, maps_phone, whatsapp_numbers,
                   whatsapp_business, person_whatsapp, llm_sources, llm_phones, page_urls,
                   notMerge>>

NextMerge ==
    \/ ParseProvider \/ CrawlContacts \/ MergeWhatsapp \/ MergeSources \/ MergeMaps
    \/ DeduplicateLists

SpecMerge == InitMerge /\ [][NextMerge]_vars

(***************************************************************************)
(* LLMExtractor._get_role_priority.  A role text is a sequence of          *)
(* characters.                                                             *)
(***************************************************************************)
HIGHEST == "highest"
HIGH    == "high"
MEDIUM  == "medium"
LOW     == "low"
LOWEST  == "lowest"

UpperCase == <<"A", "B", "C", "D", "E", "F", "G", "H", "I", "J", "K", "L", "M", "N", "O", "P", "Q", "R", "S", "T", "U", "V", "W", "X", "Y", "Z">>
LowerCase == <<"a", "b", "c", "d", "e", "f", "g", "h", "i", "j", "k", "l", "m", "n", "o", "p", "q", "r", "s", "t", "u", "v", "w", "x", "y", "z">>

\* str.lower(), character by character
LowerChar(c) ==
    IF \E i \in 1..Len(UpperCase) : UpperCase[i] = c
    THEN LowerCase[CHOOSE i \in 1..Len(UpperCase) : UpperCase[i] = c]
    ELSE c

Lower(str) == [i \in 1..Len(str) |-> LowerChar(str[i])]

\* kw in text
Contains(text, kw) ==
    \E i \in 0..(Len(text) - Len(kw)) : SubSeq(text, i + 1, i + Len(kw)) = kw

\* any(kw in role_lower for kw in [...])
AnyIn(keywords, role_lower) == \E kw \in keywords : Contains(role_lower, kw)

HighestKeywords ==
    {<<"k", "e", "t", "u", "a", " ", "y", "a", "y", "a", "s", "a", "n">>,
     <<"c", "h", "a", "i", "r", "m", "a", "n">>,
     <<"f", "o", "u", "n", "d", "e", "r">>,
     <<"p", "e", "n", "d", "i", "r", "i">>}

HighKeywords ==
    {<<"p", "e", "m", "b", "i", "n", "a">>,
     <<"p", "a", "t", "r", "o", "n">>,
     <<"d", "i", "r", "e", "k", "t", "u", "r">>,
     <<"d", "i", "r", "e", "c", "t", "o", "r">>}

MediumKeywords ==
    {<<"k", "e", "p", "a", "l", "a", " ", "s", "e", "k", "o", "l", "a", "h">>,
     <<"p", "r", "i", "n", "c", "i", "p", "a", "l">>,
     <<"h", "e", "a", "d", " ", "o", "f", " ", "s", "c", "h", "o", "o", "l">>}

LowKeywords ==
    {<<"w", "a", "k", "i", "l">>,
     <<"v", "i", "c", "e">>,
     <<"b", "e", "n", "d", "a", "h", "a", "r", "a">>,
     <<"t", "r", "e", "a", "s", "u", "r", "e", "r">>,
     <<"s", "e", "k", "r", "e", "t", "a", "r", "i", "s">>}

\* faulty variant: the treasurers' keywords are tested before the principals'
RolePriorityLowFirst(role) ==
    LET role_lower == IF role # None /\ role # <<>> THEN Lower(role) ELSE <<>> IN
    IF AnyIn(HighestKeywords, role_lower) THEN HIGHEST
    ELSE IF AnyIn(HighKeywords, role_lower) THEN HIGH
    ELSE IF AnyIn(LowKeywords, role_lower) THEN LOW
    ELSE IF AnyIn(MediumKeywords, role_lower) THEN MEDIUM
    ELSE LOWEST

\* _get_role_priority
GetRolePriority(role) ==
    LET role_lower == IF role # None /\ role # <<>> THEN Lower(role) ELSE <<>> IN
    IF AnyIn(HighestKeywords, role_lower) THEN HIGHEST
    ELSE IF AnyIn(HighKeywords, role_lower) THEN HIGH
    ELSE IF AnyIn(MediumKeywords, role_lower) THEN MEDIUM
    ELSE IF AnyIn(LowKeywords, role_lower) THEN LOW
    ELSE LOWEST

\* the pieces role texts are put together from
RolePieces ==
    {<<"K", "e", "t", "u", "a", " ", "Y", "a", "y", "a", "s", "a", "n">>,
     <<"D", "I", "R", "E", "K", "T", "U", "R">>,
     <<"K", "e", "p", "a", "l", "a", " ", "S", "e", "k", "o", "l", "a", "h">>,
     <<"W", "a", "k", "i", "l">>,
     <<" ">>,
     <<"g", "u", "r", "u">>,
     <<"S", "e", "r">>,
     <<"v", "i", "c", "e">>}

MaxRolePieces == 3

RECURSIVE Flatten(_)
Flatten(seqs) == IF seqs = <<>> THEN <<>> ELSE Head(seqs) \o Flatten(Tail(seqs))

RoleTexts == {Flatten(ps) : ps \in Strings(RolePieces, MaxRolePieces)} \cup {None}

InitRole ==
    /\ role_in \in RoleTexts
    /\ role_priority = None
    /\ role_pc = "call"
    /\ IdleCrawl /\ IdlePhone /\ IdleJson /\ IdleEngine /\ IdleMerge /\ IdlePeople /\ IdleQuality /\ IdleValidator /\ IdleSearch /\ IdleApi /\ IdleShared /\ IdleVerify /\ IdleAsync /\ IdleOrder

\* priority = self._get_role_priority(dm.get('role_indonesian', '') or dm.get('role', ''))
RoleCall ==
    /\ role_pc = "call"
    /\ role_priority' = <<GetRolePriority(role_in)>>
    /\ role_pc' = "returned"
    /\ UNCHANGED <<role_in, notRole>>

NextRole == RoleCall

SpecRole == InitRole /\ [][NextRole]_vars

(***************************************************************************)
(* LLMExtractor.validate_and_deduplicate: the decision makers.  A person   *)
(* is a record of the name and the priority; the name is a sequence of     *)
(* characters or None.                                                     *)
(***************************************************************************)
\* str.strip()
RECURSIVE Strip(_)
Strip(str) ==
    IF str = <<>> THEN <<>>
    ELSE IF Head(str) = " " THEN Strip(Tail(str))
    ELSE IF str[Len(str)] = " " THEN Strip(SubSeq(str, 1, Len(str) - 1))
    ELSE str

\* faulty variant: the key is the name as written
NameKeyExact(name) == name

\* name_key = dm.name.lower().strip()
NameKey(name) == Strip(Lower(name))

\* the loop over school_data.decision_makers: seen_names and unique_dms
RECURSIVE UniqueDms(_, _)
UniqueDms(dms, seen_names) ==
    IF dms = <<>> THEN <<>>
    ELSE LET dm == Head(dms) IN
         IF Truthy(dm.name) /\ NameKey(dm.name) \notin seen_names
         THEN <<dm>> \o UniqueDms(Tail(dms), seen_names \cup {NameKey(dm.name)})
         ELSE UniqueDms(Tail(dms), seen_names)

\* list(RolePriority)
RolePriorities == <<HIGHEST, HIGH, MEDIUM, LOW, LOWEST>>

\* list(RolePriority).index(x.priority)
PriorityIndex(priority) == CHOOSE i \in 1..Len(RolePriorities) : RolePriorities[i] = priority

\* list.sort(key=...): stable, people of equal key keep their order
RECURSIVE SortByPriority(_)
SortByPriority(dms) ==
    IF dms = <<>> THEN <<>>
    ELSE LET least == CHOOSE i \in 1..Len(dms) :
                 /\ \A j \in 1..Len(dms) :
                        PriorityIndex(dms[i].priority) <= PriorityIndex(dms[j].priority)
                 /\ \A j \in 1..(i - 1) :
                        PriorityIndex(dms[j].priority) # PriorityIndex(dms[i].priority)
             rest == [k \in 1..(Len(dms) - 1) |-> IF k < least THEN dms[k] ELSE dms[k + 1]]
         IN  <<dms[least]>> \o SortByPriority(rest)

\* validate_and_deduplicate, the decision makers it leaves in the record
DeduplicatePeople(dms) == SortByPriority(UniqueDms(dms, {}))

PersonNames ==
    {<<"B", "u", "d", "i", " ", "S", "a", "n", "t", "o", "s", "o">>, <<"B", "U", "D", "I", " ", "S", "A", "N", "T", "O", "S", "O">>, <<"A", "n", "i">>, <<" ", "a", "n", "i", " ">>, None}

People == [name : PersonNames, priority : {HIGHEST, MEDIUM}]

MaxPeople == 3

InitPeople ==
    /\ dm_in \in Strings(People, MaxPeople)
    /\ dm_out = <<>>
    /\ people_pc = "call"
    /\ IdleCrawl /\ IdlePhone /\ IdleJson /\ IdleEngine /\ IdleMerge /\ IdleRole /\ IdleQuality /\ IdleValidator /\ IdleSearch /\ IdleApi /\ IdleShared /\ IdleVerify /\ IdleAsync /\ IdleOrder

\* school_data = await self.extractor.validate_and_deduplicate(school_data)
ValidateAndDeduplicate ==
    /\ people_pc = "call"
    /\ dm_out' = DeduplicatePeople(dm_in)
    /\ people_pc' = "returned"
    /\ UNCHANGED <<dm_in, notPeople>>

NextPeople == ValidateAndDeduplicate

SpecPeople == InitPeople /\ [][NextPeople]_vars

(***************************************************************************)
(* SchoolData.calculate_quality_score.  Weights are counted in thousandths *)
(* and the score, which the code rounds to two decimals, in hundredths.    *)
(***************************************************************************)
\* the checks on fields of the record, with their weights
FieldWeights ==
    [foundation_name |-> 100, npsn |-> 100, official_website |-> 100, official_email |-> 150,
     whatsapp_business |-> 200, instagram |-> 25, facebook |-> 25]

\* the checks on the decision makers
HasPeopleWeight   == 150
AnyWhatsappWeight == 100
AnyLinkedinWeight == 50

BonusPerContact == 100
BonusCap        == 300

RECURSIVE SumWeights(_)
SumWeights(names) ==
    IF names = {} THEN 0
    ELSE LET name == CHOOSE n \in names : TRUE
         IN  FieldWeights[name] + SumWeights(names \ {name})

\* total_weight after the loop over checks
BaseWeight ==
    SumWeights(DOMAIN FieldWeights) + HasPeopleWeight + AnyWhatsappWeight + AnyLinkedinWeight

\* score after the loop over checks
BaseScore(fields, people) ==
    SumWeights(fields)
        + (IF Len(people) > 0 THEN HasPeopleWeight ELSE 0)
        + (IF \E i \in 1..Len(people) : people[i].whatsapp THEN AnyWhatsappWeight ELSE 0)
        + (IF \E i \in 1..Len(people) : people[i].linkedin_url THEN AnyLinkedinWeight ELSE 0)

\* sum(1 for dm in self.decision_makers if dm.whatsapp_verified and dm.email_verified)
VerifiedContacts(people) ==
    Cardinality({i \in 1..Len(people) :
                    people[i].whatsapp_verified /\ people[i].email_verified})

Min(a, b) == IF a <= b THEN a ELSE b

\* verification_bonus = min(0.3, verified_contacts * 0.1), 0 without verified contacts
VerificationBonus(people) ==
    IF VerifiedContacts(people) > 0
    THEN Min(BonusCap, VerifiedContacts(people) * BonusPerContact)
    ELSE 0

\* round(score / total_weight, 2) in hundredths, a tie going to the even digit
Round2(score, total_weight) ==
    LET q == (100 * score) \div total_weight
        r == (100 * score) % total_weight
    IN  IF 2 * r > total_weight THEN q + 1
        ELSE IF 2 * r < total_weight THEN q
        ELSE IF q % 2 = 0 THEN q ELSE q + 1

\* faulty variant: the bonus is added to the score and not to total_weight
QualityScoreBonusOnScore(fields, people) ==
    Round2(BaseScore(fields, people) + VerificationBonus(people), BaseWeight)

\* faulty variant: the bonus is added to total_weight and not to the score
QualityScoreBonusOnWeight(fields, people) ==
    Round2(BaseScore(fields, people), BaseWeight + VerificationBonus(people))

\* the value of calculate_quality_score
QualityScore(fields, people) ==
    LET score        == BaseScore(fields, people) + VerificationBonus(people)
        total_weight == BaseWeight + VerificationBonus(people)
    IN  IF total_weight > 0 THEN Round2(score, total_weight) ELSE 0

\* the decision makers of the records
Plain == [whatsapp |-> FALSE, linkedin_url |-> FALSE, whatsapp_verified |-> FALSE,
          email_verified |-> FALSE]

QualityPeople ==
    {Plain,
     [Plain EXCEPT !.whatsapp = TRUE],
     [Plain EXCEPT !.linkedin_url = TRUE],
     [Plain EXCEPT !.whatsapp = TRUE, !.whatsapp_verified = TRUE],
     [Plain EXCEPT !.whatsapp = TRUE, !.whatsapp_verified = TRUE, !.email_verified = TRUE]}

MaxQualityPeople == 4

InitQuality ==
    /\ q_fields \in SUBSET DOMAIN FieldWeights
    /\ q_people \in Strings(QualityPeople, MaxQualityPeople)
    /\ q_bonus = 0
    /\ q_score = 0
    /\ quality_pc = "call"
    /\ IdleCrawl /\ IdlePhone /\ IdleJson /\ IdleEngine /\ IdleMerge /\ IdleRole /\ IdlePeople /\ IdleValidator /\ IdleSearch /\ IdleApi /\ IdleShared /\ IdleVerify /\ IdleAsync /\ IdleOrder

\* school_data.calculate_quality_score()
CalculateQualityScore ==
    /\ quality_pc = "call"
    /\ q_bonus' = VerificationBonus(q_people)
    /\ q_score' = QualityScore(q_fields, q_people)
    /\ quality_pc' = "returned"
    /\ UNCHANGED <<q_fields, q_people, notQuality>>

NextQuality == CalculateQualityScore

SpecQuality == InitQuality /\ [][NextQuality]_vars

(***************************************************************************)
(* ContactValidator: verify_whatsapp and verify_email_live with their      *)
(* caches.  The calls on the instance follow one another.                  *)
(***************************************************************************)
\* faulty variant: the cache is never found to hold the key
InCacheNever(cache, key) == FALSE

\* normalized in self.whatsapp_cache / email.lower() in self.email_cache
InCache(cache, key) == key \in DOMAIN cache

\* self.whatsapp_cache[normalized] = ... / self.email_cache[email.lower()] = result
Store(cache, key, value) ==
    [k \in DOMAIN cache \cup {key} |-> IF k = key THEN value ELSE cache[k]]

\* re.match(r'^\+628\d{8,10}$', normalized.replace(" ", ""))
MatchesMobilePattern(normalized) ==
    LET str == SelectSeq(normalized, LAMBDA c : c # " ") IN
    /\ StartsWith(str, <<"+", "6", "2", "8">>)
    /\ Len(str) - 4 \in 8..10
    /\ \A i \in 5..Len(str) : IsDigit(str[i])

\* _check_whatsapp_api: the placeholder, which returns False
CheckWhatsappApi(normalized) == FALSE

\* result of verify_whatsapp before the checks
NewWhatsappResult == [exists |-> FALSE, is_mobile |-> FALSE, is_valid_format |-> FALSE]

\* result of verify_email_live before the checks
NewEmailResult ==
    [is_valid_syntax |-> FALSE, has_mx_record |-> FALSE, smtp_handshake |-> FALSE,
     is_personal |-> FALSE, is_live |-> FALSE]

NoOutcomes == [syntax |-> "none", mx |-> "none", smtp |-> "none"]

\* validate_email(email, check_deliverability=False) accepts the address: one
\* "@" with a local part before it and a domain with a dot after it
ValidSyntax(email) ==
    \E i \in 2..(Len(email) - 1) :
        /\ email[i] = "@"
        /\ \A k \in 1..Len(email) : email[k] = "@" => k = i
        /\ \E k \in (i + 2)..(Len(email) - 1) : email[k] = "."

GeneralPrefixes ==
    {<<"i", "n", "f", "o">>,
     <<"a", "d", "m", "i", "n">>,
     <<"c", "o", "n", "t", "a", "c", "t">>,
     <<"s", "u", "p", "p", "o", "r", "t">>,
     <<"h", "e", "l", "p">>,
     <<"n", "o", "r", "e", "p", "l", "y">>,
     <<"n", "o", "-", "r", "e", "p", "l", "y">>,
     <<"m", "a", "i", "l">>,
     <<"w", "e", "b", "m", "a", "s", "t", "e", "r">>,
     <<"k", "o", "n", "t", "a", "k">>,
     <<"h", "u", "b", "u", "n", "g", "i">>}

\* local_part = email.split("@")[0].lower()
LocalPart(email) ==
    LET at == IndexFrom(email, "@", 1) IN
    Lower(IF at = 0 THEN email ELSE SubSeq(email, 1, at - 1))

\* not any(local_part.startswith(prefix) for prefix in general_prefixes)
IsPersonal(email) == ~\E prefix \in GeneralPrefixes : StartsWith(LocalPart(email), prefix)

\* faulty variant: the handshake is left out of the overall result
IsLiveWithoutHandshake(res) == res.is_valid_syntax /\ res.has_mx_record

\* is_live = is_valid_syntax and has_mx_record and smtp_handshake
IsLive(res) == res.is_valid_syntax /\ res.has_mx_record /\ res.smtp_handshake

\* what _check_mx_record and _smtp_handshake can do: succeed, find nothing, raise
ProbeOutcomes == {"pass", "fail", "exception"}

\* a landline written with the country code
PlusLandline == <<"+", "6", "2", "3", "1">> \o Fill(7)

ValidatorPhones == {PlusMobile, LocalMobile, Landline, PlusLandline}

ValidatorEmails ==
    {<<"I", "n", "f", "o", "@", "S", "c", "h", ".", "i", "d">>,
     <<"i", "n", "f", "o", "@", "s", "c", "h", ".", "i", "d">>,
     <<"a", "n", "i", "@", "s", "c", "h", ".", "i", "d">>,
     <<"b", "a", "d">>}

MaxCalls == 3

InitValidator ==
    /\ whatsapp_cache = <<>>
    /\ email_cache = <<>>
    /\ v_kind = "none"
    /\ v_input = None
    /\ v_result = None
    /\ v_known = FALSE
    /\ v_consulted = FALSE
    /\ v_outcomes = NoOutcomes
    /\ v_calls = 0
    /\ validator_pc = "idle"
    /\ IdleCrawl /\ IdlePhone /\ IdleJson /\ IdleEngine /\ IdleMerge /\ IdleRole /\ IdlePeople /\ IdleQuality /\ IdleSearch /\ IdleApi /\ IdleShared /\ IdleVerify /\ IdleAsync /\ IdleOrder

\* verify_whatsapp(phone_number, use_api), from the call to the return
VerifyWhatsapp ==
    /\ validator_pc = "idle"
    /\ v_calls < MaxCalls
    /\ \E phone \in ValidatorPhones, use_api \in BOOLEAN :
          LET normalized == ValidatorNormalizePhone(phone)
              is_mobile  == \/ StartsWith(normalized, <<"+", "6", "2", "8">>)
                            \/ StartsWith(normalized, <<"+", "6", "2", " ", "8">>)
              matches    == MatchesMobilePattern(normalized)
              exists     == IF use_api THEN CheckWhatsappApi(normalized) ELSE matches
          IN  /\ v_input' = phone
              /\ v_known' = (normalized # None /\ normalized \in DOMAIN whatsapp_cache)
              /\ IF normalized = None
                 THEN /\ v_result' = NewWhatsappResult
                      /\ v_consulted' = FALSE
                      /\ UNCHANGED whatsapp_cache
                 ELSE IF InCache(whatsapp_cache, normalized)
                 THEN /\ v_result' = [exists |-> whatsapp_cache[normalized],
                                      is_mobile |-> is_mobile, is_valid_format |-> TRUE]
                      /\ v_consulted' = FALSE
                      /\ UNCHANGED whatsapp_cache
                 ELSE /\ v_result' = [exists |-> exists,
                                      is_mobile |-> is_mobile \/ (~use_api /\ matches),
                                      is_valid_format |-> TRUE]
                      /\ v_consulted' = TRUE
                      /\ whatsapp_cache' = Store(whatsapp_cache, normalized, exists)
    /\ v_kind' = "whatsapp"
    /\ v_outcomes' = NoOutcomes
    /\ v_calls' = v_calls + 1
    /\ validator_pc' = "returned"
    /\ UNCHANGED <<email_cache, notValidator>>

\* verify_email_live(email): the cache is looked up first
EmailCall ==
    /\ validator_pc = "idle"
    /\ v_calls < MaxCalls
    /\ \E email \in ValidatorEmails :
          /\ v_input' = email
          /\ v_known' = (Lower(email) \in DOMAIN email_cache)
          /\ IF InCache(email_cache, Lower(email))
             THEN v_result' = email_cache[Lower(email)] /\ validator_pc' = "returned"
             ELSE v_result' = NewEmailResult /\ validator_pc' = "syntax"
    /\ v_kind' = "email"
    /\ v_consulted' = FALSE
    /\ v_outcomes' = NoOutcomes
    /\ v_calls' = v_calls + 1
    /\ UNCHANGED <<whatsapp_cache, email_cache, notValidator>>

\* 1. validate_email; on EmailNotValidError the result is cached and returned;
\* 2. otherwise is_personal is set from the local part
EmailSyntax ==
    /\ validator_pc = "syntax"
    /\ v_consulted' = TRUE
    /\ IF ValidSyntax(v_input)
       THEN /\ v_result' = [v_result EXCEPT !.is_valid_syntax = TRUE,
                                            !.is_personal = IsPersonal(v_input)]
            /\ v_outcomes' = [v_outcomes EXCEPT !.syntax = "pass"]
            /\ validator_pc' = "mx"
            /\ UNCHANGED email_cache
       ELSE /\ v_outcomes' = [v_outcomes EXCEPT !.syntax = "fail"]
            /\ email_cache' = Store(email_cache, Lower(v_input), v_result)
            /\ validator_pc' = "returned"
            /\ UNCHANGED v_result
    /\ UNCHANGED <<whatsapp_cache, v_kind, v_input, v_known, v_calls, notValidator>>

\* 3. mx_records = await self._check_mx_record(domain), exceptions logged
EmailMx ==
    /\ validator_pc = "mx"
    /\ \E outcome \in ProbeOutcomes :
          /\ v_result' = [v_result EXCEPT !.has_mx_record = (outcome = "pass")]
          /\ v_outcomes' = [v_outcomes EXCEPT !.mx = outcome]
          /\ validator_pc' = IF outcome = "pass" THEN "smtp" ELSE "finish"
    /\ UNCHANGED <<whatsapp_cache, email_cache, v_kind, v_input, v_known, v_consulted,
                   v_calls, notValidator>>

\* 4. if result["has_mx_record"]: smtp_handshake = await self._smtp_handshake(...)
EmailSmtp ==
    /\ validator_pc = "smtp"
    /\ \E outcome \in ProbeOutcomes :
          /\ v_result' = [v_result EXCEPT !.smtp_handshake = (outcome = "pass")]
          /\ v_outcomes' = [v_outcomes EXCEPT !.smtp = outcome]
    /\ validator_pc' = "finish"
    /\ UNCHANGED <<whatsapp_cache, email_cache, v_kind, v_input, v_known, v_consulted,
                   v_calls, notValidator>>

\* is_live is set, the result cached and returned
EmailFinish ==
    /\ validator_pc = "finish"
    /\ LET res == [v_result EXCEPT !.is_live = IsLive(v_result)] IN
          /\ v_result' = res
          /\ email_cache' = Store(email_cache, Lower(v_input), res)
    /\ validator_pc' = "returned"
    /\ UNCHANGED <<whatsapp_cache, v_kind, v_input, v_known, v_consulted, v_outcomes,
                   v_calls, notValidator>>

\* the caller has the result; the instance waits for the next call
ValidatorReturn ==
    /\ validator_pc = "returned"
    /\ validator_pc' = "idle"
    /\ UNCHANGED <<whatsapp_cache, email_cache, v_kind, v_input, v_result, v_known,
                   v_consulted, v_outcomes, v_calls, notValidator>>

NextValidator ==
    \/ VerifyWhatsapp \/ EmailCall \/ EmailSyntax \/ EmailMx \/ EmailSmtp \/ EmailFinish
    \/ ValidatorReturn

SpecValidator == InitValidator /\ [][NextValidator]_vars

(***************************************************************************)
(* Requests to the search provider.  LeadEnrichmentEngine.__init__ builds  *)
(* its own SerperSearch, and SerperSearch.__init__ builds its own          *)
(* asyncio.Semaphore(config.REQUESTS_PER_MINUTE); search() posts inside    *)
(* "async with self.rate_limiter", fetch_google_maps_data posts to the     *)
(* places endpoint of the same provider outside any semaphore.             *)
(***************************************************************************)
REQUESTS_PER_MINUTE == 2
NumEngines == 2
NumJobs == 3
MaxSearches == 2

Engines == 1..NumEngines
Jobs == 1..NumJobs

\* self.rate_limiter = asyncio.Semaphore(config.REQUESTS_PER_MINUTE)
NewSemaphore == REQUESTS_PER_MINUTE

\* requests the provider is serving now
InFlight == {j \in Jobs : job_pc[j] \in {"posting", "places"}}

\* requests posted inside "async with self.rate_limiter"
HoldingPermit == {j \in Jobs : job_pc[j] = "posting"}

InitSearch ==
    /\ permits = [e \in Engines |-> NewSemaphore]
    /\ job_engine = [j \in Jobs |-> 0]
    /\ job_searches = [j \in Jobs |-> 0]
    /\ job_pc = [j \in Jobs |-> "idle"]
    /\ IdleCrawl /\ IdlePhone /\ IdleJson /\ IdleEngine /\ IdleMerge /\ IdleRole /\ IdlePeople /\ IdleQuality /\ IdleValidator /\ IdleApi /\ IdleShared /\ IdleVerify /\ IdleAsync /\ IdleOrder

\* a job starts on an engine: the module-level one or one built for the call
JobStart(j) ==
    /\ job_pc[j] = "idle"
    /\ \E e \in Engines : job_engine' = [job_engine EXCEPT ![j] = e]
    /\ job_pc' = [job_pc EXCEPT ![j] = "waiting"]
    /\ UNCHANGED <<permits, job_searches, notSearch>>

\* async with self.rate_limiter: a permit of this searcher is taken, then POST
SearchAcquire(j) ==
    /\ job_pc[j] = "waiting"
    /\ permits[job_engine[j]] > 0
    /\ permits' = [permits EXCEPT ![job_engine[j]] = @ - 1]
    /\ job_pc' = [job_pc EXCEPT ![j] = "posting"]
    /\ UNCHANGED <<job_engine, job_searches, notSearch>>

\* the response arrives and the with block is left
SearchRelease(j) ==
    /\ job_pc[j] = "posting"
    /\ permits' = [permits EXCEPT ![job_engine[j]] = @ + 1]
    /\ job_searches' = [job_searches EXCEPT ![j] = @ + 1]
    /\ job_pc' = [job_pc EXCEPT ![j] =
                    IF job_searches[j] + 1 < MaxSearches THEN "waiting" ELSE "searched"]
    /\ UNCHANGED <<job_engine, notSearch>>

\* fetch_google_maps_data: client.post(".../places") with no semaphore
PlacesPost(j) ==
    /\ job_pc[j] = "searched"
    /\ job_pc' = [job_pc EXCEPT ![j] = "places"]
    /\ UNCHANGED <<permits, job_engine, job_searches, notSearch>>

PlacesDone(j) ==
    /\ job_pc[j] = "places"
    /\ job_pc' = [job_pc EXCEPT ![j] = "done"]
    /\ UNCHANGED <<permits, job_engine, job_searches, notSearch>>

NextSearch ==
    \E j \in Jobs :
        \/ JobStart(j)
        \/ SearchAcquire(j)
        \/ SearchRelease(j)
        \/ PlacesPost(j)
        \/ PlacesDone(j)

SpecSearch == InitSearch /\ [][NextSearch]_vars

(***************************************************************************)
(* One job of the HTTP API: POST /api/schools/process, the background task *)
(* process_schools_background with EnrichmentService.process_schools and   *)
(* the update_progress callback, and GET /api/schools/status/{job_id}.     *)
(* The jobs table is a set of rows; the store assigns the id of a new row. *)
(***************************************************************************)
MaxApiSchools == 3

JobIds == {"id-a", "id-b"}

NoProgress == [processed |-> 0, successful |-> 0, failed |-> 0]

\* SupabaseDB.create_job: the inserted row, its id chosen by the store
NewJobRow(id, count) ==
    [id |-> id, schools_count |-> count, status |-> "pending",
     processed_count |-> 0, successful_count |-> 0, failed_count |-> 0]

\* SupabaseDB.update_job_status: update(...).eq("id", job_id)
UpdateJobStatus(rows, id, status) ==
    {IF r.id = id THEN [r EXCEPT !.status = status] ELSE r : r \in rows}

\* SupabaseDB.update_job_progress: update(...).eq("id", job_id)
UpdateJobProgress(rows, id, counts) ==
    {IF r.id = id
     THEN [r EXCEPT !.processed_count = counts.processed,
                    !.successful_count = counts.successful,
                    !.failed_count = counts.failed]
     ELSE r : r \in rows}

\* SupabaseDB.get_job: the row with this id, if any
GetJob(rows, id) == {r \in rows : r.id = id}

\* update_progress: sum(1 for _ in range(processed) if result.status.value == ...)
ProgressCounts(processed, status) ==
    [processed |-> processed,
     successful |-> IF status = COMPLETED THEN processed ELSE 0,
     failed |-> IF status = FAILED THEN processed ELSE 0]

\* number of results with this status
CountStatus(results, status) ==
    Cardinality({k \in DOMAIN results : results[k].status = status})

InitApi ==
    /\ api_n \in 1..MaxApiSchools
    /\ job_id = "none"
    /\ job_rows = {}
    /\ api_outcomes = <<>>
    /\ api_results = <<>>
    /\ api_calls = <<>>
    /\ progress_args = NoProgress
    /\ status_reply = "none"
    /\ api_i = 0
    /\ api_pc = "start"
    /\ IdleCrawl /\ IdlePhone /\ IdleJson /\ IdleEngine /\ IdleMerge /\ IdleRole /\ IdlePeople /\ IdleQuality /\ IdleValidator /\ IdleSearch /\ IdleShared /\ IdleVerify /\ IdleAsync /\ IdleOrder

\* POST /process: job_id = str(uuid.uuid4()); await db.create_job(...);
\* jobs[job_id] = ...; add_task; the response carries job_id.  A failing
\* create_job becomes an HTTP 500.
ProcessSchoolsRoute ==
    /\ api_pc = "start"
    /\ \/ \E uuid \in JobIds, row_id \in JobIds :
            /\ job_id' = uuid
            /\ job_rows' = job_rows \cup {NewJobRow(row_id, api_n)}
            /\ api_pc' = "queued"
       \/ /\ api_pc' = "rejected"
          /\ UNCHANGED <<job_id, job_rows>>
    /\ UNCHANGED <<api_n, api_outcomes, api_results, api_calls, progress_args,
                   status_reply, api_i, notApi>>

\* process_schools_background up to the service call
BackgroundStart ==
    /\ api_pc = "queued"
    /\ \/ /\ job_rows' = UpdateJobStatus(job_rows, job_id, "processing")
          /\ api_pc' = "loop"
       \/ /\ job_rows' = UpdateJobStatus(job_rows, job_id, "failed")
          /\ api_pc' = "done"
    /\ UNCHANGED <<api_n, job_id, api_outcomes, api_results, api_calls, progress_args,
                   status_reply, api_i, notApi>>

\* result = await self.engine.enrich_school(school); results.append(result)
ServiceEnrich ==
    /\ api_pc = "loop"
    /\ api_i < api_n
    /\ \E status \in {COMPLETED, FAILED} :
        /\ api_outcomes' = Append(api_outcomes, status)
        /\ api_results' = Append(api_results, [school |-> api_i + 1, status |-> status])
    /\ api_pc' = "callback"
    /\ UNCHANGED <<api_n, job_id, job_rows, api_calls, progress_args, status_reply,
                   api_i, notApi>>

\* await progress_callback(i + 1, len(schools), result); an exception of the
\* callback lands in the except clause, which appends a failed result
ServiceCallback ==
    /\ api_pc = "callback"
    /\ LET processed == api_i + 1
           counts == ProgressCounts(processed, api_outcomes[processed]) IN
        /\ api_calls' = Append(api_calls, [processed |-> processed, total |-> api_n])
        /\ progress_args' = counts
        /\ \/ /\ job_rows' = UpdateJobProgress(job_rows, job_id, counts)
              /\ UNCHANGED api_results
           \/ /\ api_results' = Append(api_results,
                                       [school |-> processed, status |-> FAILED])
              /\ UNCHANGED job_rows
    /\ api_i' = api_i + 1
    /\ api_pc' = "loop"
    /\ UNCHANGED <<api_n, job_id, api_outcomes, status_reply, notApi>>

\* return results
ServiceReturn ==
    /\ api_pc = "loop"
    /\ api_i = api_n
    /\ api_pc' = "save"
    /\ UNCHANGED <<api_n, job_id, job_rows, api_outcomes, api_results, api_calls,
                   progress_args, status_reply, api_i, notApi>>

\* the results are saved and counted, then update_job_progress and
\* update_job_status("completed"); any exception: update_job_status("failed")
BackgroundSave ==
    /\ api_pc = "save"
    /\ \/ job_rows' = UpdateJobStatus(
               UpdateJobProgress(job_rows, job_id,
                   [processed |-> Len(api_results),
                    successful |-> CountStatus(api_results, COMPLETED),
                    failed |-> Len(api_results) - CountStatus(api_results, COMPLETED)]),
               job_id, "completed")
       \/ job_rows' = UpdateJobStatus(job_rows, job_id, "failed")
    /\ api_pc' = "done"
    /\ UNCHANGED <<api_n, job_id, api_outcomes, api_results, api_calls, progress_args,
                   status_reply, api_i, notApi>>

\* GET /status/{job_id} with the id the POST returned
GetJobStatus ==
    /\ job_id # "none"
    /\ status_reply' = IF GetJob(job_rows, job_id) = {}
                       THEN "not_found"
                       ELSE (CHOOSE r \in GetJob(job_rows, job_id) : TRUE).status
    /\ status_reply' # status_reply
    /\ UNCHANGED <<api_n, job_id, job_rows, api_outcomes, api_results, api_calls,
                   progress_args, api_i, api_pc, notApi>>

NextApi ==
    \/ ProcessSchoolsRoute
    \/ BackgroundStart
    \/ ServiceEnrich
    \/ ServiceCallback
    \/ ServiceReturn
    \/ BackgroundSave
    \/ GetJobStatus

SpecApi == InitApi /\ [][NextApi]_vars

(***************************************************************************)
(* Two jobs of the API run scrape_school_website on the WebScraper of the  *)
(* module-level enrichment_service.  to_visit and pages are locals of each *)
(* call; self.visited_urls is an attribute of the scraper, reset when a    *)
(* traversal starts.  A step runs from one await to the next.              *)
(***************************************************************************)
SharedMaxPages == 3

Traversals == {1, 2}

LainUrl == Url("lain", {})

\* the links of each page of the two sites, in document order
SiteLinks(url) ==
    IF url = HomeUrl THEN <<AboutUrl, NewsUrl>>
    ELSE IF url = AboutUrl THEN <<HomeUrl, KontakUrl>>
    ELSE IF url = LainUrl THEN <<OtherUrl>>
    ELSE <<Url(url.netloc, {})>>

InitShared ==
    /\ shared_visited = {}
    /\ t_base \in {b \in [Traversals -> {HomeUrl, LainUrl}] : b[1] = HomeUrl}
    /\ t_to_visit = [t \in Traversals |-> <<>>]
    /\ t_pages = [t \in Traversals |-> <<>>]
    /\ t_cur = [t \in Traversals |-> NoUrl]
    /\ t_fetched = [t \in Traversals |-> <<>>]
    /\ t_marked = [t \in Traversals |-> {}]
    /\ t_foreign_skip = [t \in Traversals |-> FALSE]
    /\ t_pc = [t \in Traversals |-> "idle"]
    /\ IdleCrawl /\ IdlePhone /\ IdleJson /\ IdleEngine /\ IdleMerge /\ IdleRole /\ IdlePeople /\ IdleQuality /\ IdleValidator /\ IdleSearch /\ IdleApi /\ IdleVerify /\ IdleAsync /\ IdleOrder

\* pages = []; to_visit = [base_url]; self.visited_urls = set()
SharedStart(t) ==
    /\ t_pc[t] = "idle"
    /\ t_to_visit' = [t_to_visit EXCEPT ![t] = <<t_base[t]>>]
    /\ shared_visited' = {}
    /\ t_pc' = [t_pc EXCEPT ![t] = "loop"]
    /\ UNCHANGED <<t_base, t_pages, t_cur, t_fetched, t_marked, t_foreign_skip, notShared>>

\* one pass from the loop test to the await of scrape_page
SharedPop(t) ==
    /\ t_pc[t] = "loop"
    /\ LoopCondition(t_to_visit[t], t_pages[t], SharedMaxPages)
    /\ LET url == Head(t_to_visit[t]) IN
        /\ t_to_visit' = [t_to_visit EXCEPT ![t] = Tail(@)]
        /\ IF url \in shared_visited
           THEN /\ t_foreign_skip' = [t_foreign_skip EXCEPT ![t] = @ \/ url \notin t_marked[t]]
                /\ UNCHANGED <<shared_visited, t_marked, t_cur, t_fetched, t_pc>>
           ELSE /\ shared_visited' = MarkVisited(shared_visited, url)
                /\ t_marked' = [t_marked EXCEPT ![t] = @ \cup {url}]
                /\ UNCHANGED t_foreign_skip
                /\ IF url.netloc # t_base[t].netloc
                   THEN UNCHANGED <<t_cur, t_fetched, t_pc>>
                   ELSE /\ t_cur' = [t_cur EXCEPT ![t] = url]
                        /\ t_fetched' = [t_fetched EXCEPT ![t] = Append(@, url)]
                        /\ t_pc' = [t_pc EXCEPT ![t] = "fetch"]
    /\ UNCHANGED <<t_base, t_pages>>
    /\ UNCHANGED notShared

\* scrape_page returns; the page is recorded and its links are queued
SharedFetch(t) ==
    /\ t_pc[t] = "fetch"
    /\ \E ok \in BOOLEAN :
        LET page == [url |-> t_cur[t], success |-> ok]
            SameSite(h) == h.netloc = t_cur[t].netloc
            links == SelectSeq(SiteLinks(t_cur[t]), SameSite) IN
        /\ t_pages' = [t_pages EXCEPT ![t] = RecordPage(@, page)]
        /\ t_to_visit' = [t_to_visit EXCEPT ![t] =
                            IF ok THEN Enqueue(links, shared_visited, @) ELSE @]
    /\ t_cur' = [t_cur EXCEPT ![t] = NoUrl]
    /\ t_pc' = [t_pc EXCEPT ![t] = "sleep"]
    /\ UNCHANGED <<shared_visited, t_base, t_fetched, t_marked, t_foreign_skip, notShared>>

\* await asyncio.sleep(self.delay), then the loop test; return pages
SharedSleep(t) ==
    /\ t_pc[t] = "sleep"
    /\ t_pc' = [t_pc EXCEPT ![t] = "loop"]
    /\ UNCHANGED <<shared_visited, t_base, t_to_visit, t_pages, t_cur, t_fetched,
                   t_marked, t_foreign_skip, notShared>>

SharedReturn(t) ==
    /\ t_pc[t] = "loop"
    /\ ~LoopCondition(t_to_visit[t], t_pages[t], SharedMaxPages)
    /\ t_pc' = [t_pc EXCEPT ![t] = "done"]
    /\ UNCHANGED <<shared_visited, t_base, t_to_visit, t_pages, t_cur, t_fetched,
                   t_marked, t_foreign_skip, notShared>>

NextShared ==
    \E t \in Traversals :
        \/ SharedStart(t)
        \/ SharedPop(t)
        \/ SharedFetch(t)
        \/ SharedSleep(t)
        \/ SharedReturn(t)

SpecShared == InitShared /\ [][NextShared]_vars

(***************************************************************************)
(* The verified flags of a person, from the provider's JSON through        *)
(* the DecisionMaker constructor and the validation phase of enrich_school *)
(* to the record.  A JSON key is "absent", "true" or "false"; a contact is *)
(* present or not.                                                         *)
(***************************************************************************)
MaxVerifyPeople == 2

JsonFlags == {"absent", "true", "false"}

LlmPeople ==
    [whatsapp : BOOLEAN, email : BOOLEAN,
     whatsapp_verified : JsonFlags, email_verified : JsonFlags]

NotAsked == [wa_ran |-> FALSE, wa_exists |-> FALSE, email_ran |-> FALSE, email_live |-> FALSE]

\* DecisionMaker(**dm): a key of the JSON sets the field, a missing key
\* leaves the default False
DecisionMakerFromJson(dm) ==
    [whatsapp |-> dm.whatsapp, email |-> dm.email,
     whatsapp_verified |-> (dm.whatsapp_verified = "true"),
     email_verified |-> (dm.email_verified = "true")]

InitVerify ==
    /\ cfg_whatsapp \in BOOLEAN
    /\ cfg_email \in BOOLEAN
    /\ llm_people \in UNION {[1..n -> LlmPeople] : n \in 1..MaxVerifyPeople}
    /\ rec_people = <<>>
    /\ val_log = <<>>
    /\ rec_bonus = 0
    /\ verify_i = 0
    /\ verify_pc = "extract"
    /\ IdleCrawl /\ IdlePhone /\ IdleJson /\ IdleEngine /\ IdleMerge /\ IdleRole /\ IdlePeople /\ IdleQuality /\ IdleValidator /\ IdleSearch /\ IdleApi /\ IdleShared /\ IdleAsync /\ IdleOrder

\* extract_school_data: DecisionMaker(**dm) for each person, SchoolData(**data),
\* school_data.calculate_quality_score()
ExtractPeople ==
    /\ verify_pc = "extract"
    /\ rec_people' = [i \in DOMAIN llm_people |-> DecisionMakerFromJson(llm_people[i])]
    /\ val_log' = [i \in DOMAIN llm_people |-> NotAsked]
    /\ rec_bonus' = VerificationBonus(rec_people')
    /\ verify_pc' = "validate"
    /\ UNCHANGED <<cfg_whatsapp, cfg_email, llm_people, verify_i, notVerify>>

\* one pass of "for dm in school_data.decision_makers" of phase 3.5
ValidatePerson ==
    /\ verify_pc = "validate"
    /\ cfg_whatsapp \/ cfg_email
    /\ verify_i < Len(rec_people)
    /\ LET i == verify_i + 1
           dm == rec_people[i]
           ask_wa == cfg_whatsapp /\ dm.whatsapp
           ask_email == cfg_email /\ dm.email IN
        \E exists \in BOOLEAN, is_live \in BOOLEAN :
            /\ (~ask_wa => ~exists) /\ (~ask_email => ~is_live)
            /\ rec_people' = [rec_people EXCEPT ![i] =
                  [dm EXCEPT !.whatsapp_verified = IF ask_wa THEN exists ELSE @,
                             !.email_verified = IF ask_email THEN is_live ELSE @]]
            /\ val_log' = [val_log EXCEPT ![i] =
                  [wa_ran |-> ask_wa, wa_exists |-> exists,
                   email_ran |-> ask_email, email_live |-> is_live]]
    /\ verify_i' = verify_i + 1
    /\ UNCHANGED <<cfg_whatsapp, cfg_email, llm_people, rec_bonus, verify_pc, notVerify>>

\* the loop is over: school_data.calculate_quality_score(); result.school_data = ...
ValidationDone ==
    /\ verify_pc = "validate"
    /\ cfg_whatsapp \/ cfg_email
    /\ verify_i = Len(rec_people)
    /\ rec_bonus' = VerificationBonus(rec_people)
    /\ verify_pc' = "completed"
    /\ UNCHANGED <<cfg_whatsapp, cfg_email, llm_people, rec_people, val_log, verify_i,
                   notVerify>>

\* neither VALIDATE_WHATSAPP nor VALIDATE_EMAIL: phase 3.5 is skipped
ValidationSkipped ==
    /\ verify_pc = "validate"
    /\ ~(cfg_whatsapp \/ cfg_email)
    /\ verify_pc' = "completed"
    /\ UNCHANGED <<cfg_whatsapp, cfg_email, llm_people, rec_people, val_log, rec_bonus,
                   verify_i, notVerify>>

NextVerify == ExtractPeople \/ ValidatePerson \/ ValidationDone \/ ValidationSkipped

SpecVerify == InitVerify /\ [][NextVerify]_vars

(***************************************************************************)
(* enrich_schools_async, the same loop in api/enrich.py and                *)
(* api/python/enrich.py.  Every call of the store may raise.  An iteration *)
(* is taken as one step: its inputs are the status enrich_school returned  *)
(* and which of the store's calls raised.                                  *)
(***************************************************************************)
MaxAsyncSchools == 3

Progress(processed, successful, failed) ==
    [processed |-> processed, successful |-> successful, failed |-> failed]

\* the counters after the try block of one iteration: successful += 1 after
\* the saves, failed += 1 in the else branch; an exception before the
\* counting (SchoolInput, enrich_school, a save) leaves them unchanged
CountInTry(successful, failed, status, raised_before_count) ==
    IF raised_before_count THEN [successful |-> successful, failed |-> failed]
    ELSE IF status = COMPLETED THEN [successful |-> successful + 1, failed |-> failed]
    ELSE [successful |-> successful, failed |-> failed + 1]

InitAsync ==
    /\ es_n \in 1..MaxAsyncSchools
    /\ es_i = 0
    /\ es_successful = 0
    /\ es_failed = 0
    /\ es_persisted = <<>>
    /\ es_pc = "start"
    /\ IdleCrawl /\ IdlePhone /\ IdleJson /\ IdleEngine /\ IdleMerge /\ IdleRole /\ IdlePeople /\ IdleQuality /\ IdleValidator /\ IdleSearch /\ IdleApi /\ IdleShared /\ IdleVerify /\ IdleOrder

\* db = SupabaseDB(); engine = LeadEnrichmentEngine();
\* await db.update_job_status(job_id, "processing")
AsyncStart ==
    /\ es_pc = "start"
    /\ \E raised \in BOOLEAN : es_pc' = IF raised THEN "failed" ELSE "loop"
    /\ UNCHANGED <<es_n, es_i, es_successful, es_failed, es_persisted, notAsync>>

\* one iteration of "for i, school_dict in enumerate(schools_data)"
AsyncSchool ==
    /\ es_pc = "loop"
    /\ es_i < es_n
    /\ \E status \in {COMPLETED, FAILED},
          raised_before_count \in BOOLEAN,
          progress_raised \in BOOLEAN,
          handler_progress_raised \in BOOLEAN :
        LET counted == CountInTry(es_successful, es_failed, status, raised_before_count)
            in_handler == raised_before_count \/ progress_raised
            failed_after == IF in_handler THEN counted.failed + 1 ELSE counted.failed
            update == Progress(es_i + 1, counted.successful, failed_after)
            accepted == IF in_handler THEN ~handler_progress_raised ELSE TRUE
        IN
        /\ (raised_before_count => ~progress_raised)
        /\ (~in_handler => ~handler_progress_raised)
        /\ es_successful' = counted.successful
        /\ es_failed' = failed_after
        /\ es_persisted' = IF accepted THEN Append(es_persisted, update) ELSE es_persisted
        /\ es_i' = IF accepted THEN es_i + 1 ELSE es_i
        /\ es_pc' = IF accepted THEN "loop" ELSE "failed"
    /\ UNCHANGED <<es_n, notAsync>>

\* await db.update_job_status(job_id, "completed"); return {...}
AsyncFinish ==
    /\ es_pc = "loop"
    /\ es_i = es_n
    /\ \E raised \in BOOLEAN : es_pc' = IF raised THEN "failed" ELSE "done"
    /\ UNCHANGED <<es_n, es_i, es_successful, es_failed, es_persisted, notAsync>>

NextAsync == AsyncStart \/ AsyncSchool \/ AsyncFinish

SpecAsync == InitAsync /\ [][NextAsync]_vars

(***************************************************************************)
(* The fetch order of scrape_school_website as a function of the page      *)
(* graph, next to the order of a traversal that differs from it only in    *)
(* keeping two first-in-first-out queues, priority and normal, and popping *)
(* from priority first.                                                    *)
(***************************************************************************)
MaxLinks == 2

\* the link lists a page may carry: up to MaxLinks distinct URLs of the site
LinkLists == UNION {Perms(S) : S \in {T \in SUBSET SiteUrls : Cardinality(T) <= MaxLinks}}

\* pages with links; the other pages of the site have none
LinkingPages == {HomeUrl, AboutUrl, KontakUrl}

LinksOf(graph, url) == IF url \in DOMAIN graph THEN graph[url] ELSE <<>>

\* the while loop of scrape_school_website from a given state on: the URLs
\* passed to scrape_page, in order
RECURSIVE SingleListOrder(_, _, _, _, _, _, _)
SingleListOrder(graph, fail, limit, queue, visited, got, log) ==
    IF ~LoopCondition(queue, got, limit) THEN log
    ELSE LET url == Head(queue)
             rest == PopFront(queue)
         IN IF url \in visited
            THEN SingleListOrder(graph, fail, limit, rest, visited, got, log)
            ELSE LET seen == MarkVisited(visited, url)
                     ok == url \notin fail
                     page == [url |-> url, success |-> ok]
                 IN SingleListOrder(graph, fail, limit,
                        IF ok THEN Enqueue(LinksOf(graph, url), seen, rest) ELSE rest,
                        seen, RecordPage(got, page), Append(log, url))

\* unseen links appended to a queue; seen means visited or in either queue
RECURSIVE AppendUnseen(_, _, _, _)
AppendUnseen(links, visited, queue, other_queue) ==
    IF links = <<>> THEN queue
    ELSE AppendUnseen(Tail(links), visited,
                      IF NotSeen(Head(links), visited, queue \o other_queue)
                      THEN Append(queue, Head(links)) ELSE queue,
                      other_queue)

\* the same loop with two queues drained priority-first
RECURSIVE TwoQueueOrder(_, _, _, _, _, _, _, _)
TwoQueueOrder(graph, fail, limit, priority, normal, visited, got, log) ==
    IF ~LoopCondition(priority \o normal, got, limit) THEN log
    ELSE LET from_priority == priority # <<>>
             url == IF from_priority THEN Head(priority) ELSE Head(normal)
             p == IF from_priority THEN Tail(priority) ELSE priority
             n == IF from_priority THEN normal ELSE Tail(normal)
         IN IF url \in visited
            THEN TwoQueueOrder(graph, fail, limit, p, n, visited, got, log)
            ELSE LET seen == MarkVisited(visited, url)
                     ok == url \notin fail
                     page == [url |-> url, success |-> ok]
                     links == LinksOf(graph, url)
                     IsOther(l) == ~IsPriorityLink(l) /\ l \notin seen
                     p2 == AppendUnseen(SelectSeq(links, IsPriorityLink), seen, p, n)
                     n2 == AppendUnseen(SelectSeq(links, IsOther), seen, n, p2)
                 IN TwoQueueOrder(graph, fail, limit,
                        IF ok THEN p2 ELSE p, IF ok THEN n2 ELSE n,
                        seen, RecordPage(got, page), Append(log, url))

InitOrder ==
    /\ o_graph \in [LinkingPages -> LinkLists]
    /\ o_fail \in {{}, {AboutUrl}}
    /\ o_max \in 0..MaxPagesBound
    /\ o_single = <<>>
    /\ o_double = <<>>
    /\ order_pc = "call"
    /\ IdleCrawl /\ IdlePhone /\ IdleJson /\ IdleEngine /\ IdleMerge /\ IdleRole /\ IdlePeople /\ IdleQuality /\ IdleValidator /\ IdleSearch /\ IdleApi /\ IdleShared /\ IdleVerify /\ IdleAsync

\* both traversals of the same site from its home page
TraverseBoth ==
    /\ order_pc = "call"
    /\ o_single' = SingleListOrder(o_graph, o_fail, o_max, <<HomeUrl>>, {}, <<>>, <<>>)
    /\ o_double' = TwoQueueOrder(o_graph, o_fail, o_max, <<HomeUrl>>, <<>>, {}, <<>>, <<>>)
    /\ order_pc' = "returned"
    /\ UNCHANGED <<o_graph, o_fail, o_max, notOrder>>

NextOrder == TraverseBoth

SpecOrder == InitOrder /\ [][NextOrder]_vars

(***************************************************************************)
(* Claims about the crawl traversal, checked under SpecCrawl.              *)
(***************************************************************************)
\* C3: after the root, no link without a priority keyword is handed to
\* scrape_page while a queued, not yet visited link has one; and when the
\* root links to an "about" page and a page without keyword, with
\* max_pages = 2, the second fetch is the "about" page.
C3_PriorityBeforeNormal ==
    /\ (crawl_pc = "fetch" /\ fetch_log # <<>> /\ ~IsPriorityLink(cur_url))
          => \A u \in Range(to_visit) : ~(IsPriorityLink(u) /\ u \notin visited_urls)
    /\ (/\ base_url = HomeUrl /\ max_pages = 2
        /\ root_links = {AboutUrl, NewsUrl}
        /\ Len(fetch_log) >= 2)
          => /\ fetch_log[1].url = HomeUrl
             /\ fetch_log[2].url = AboutUrl

\* the "about" page is being fetched second while the other link waits
C3_Witness ==
    /\ base_url = HomeUrl /\ max_pages = 2
    /\ root_links = {AboutUrl, NewsUrl}
    /\ crawl_pc = "fetch" /\ cur_url = AboutUrl
    /\ Len(fetch_log) = 1
    /\ NewsUrl \in Range(to_visit)

\* C4: within one traversal no URL is handed to scrape_page twice, whatever
\* the pages link to (themselves, the root, each other).
C4_NoUrlFetchedTwice ==
    \A i, j \in 1..Len(fetch_log) : fetch_log[i].url = fetch_log[j].url => i = j

\* a finished traversal of three pages whose root linked to itself and where
\* a later page linked back to a page visited before
C4_Witness ==
    /\ crawl_pc = "done"
    /\ Len(fetch_log) >= 3
    /\ base_url \in root_links
    /\ seen_again

\* C5: the number of URLs marked visited, and the number of fetches, never
\* exceeds max_pages.
C5_VisitedWithinBudget ==
    /\ Cardinality(visited_urls) <= max_pages
    /\ Len(fetch_log) <= max_pages

\* C6: the returned list holds one entry per fetched URL, the failed
\* fetches included, with success = false.
C6_FailedPagesRecorded ==
    crawl_pc = "done" =>
        \A i \in 1..Len(fetch_log) :
            \E j \in 1..Len(pages) :
                pages[j].url = fetch_log[i].url /\ pages[j].success = fetch_log[i].success

(***************************************************************************)
(* Claims about the phone normalisers, checked under SpecPhone.            *)
(***************************************************************************)
\* the text the pattern of wa_text's link or label captures, cleaned
MatchedNumber ==
    LET plus == IF phone_in # <<>> /\ phone_in[1] = "+" /\ RunLen(phone_in, 2, NumberChars) > 0
                THEN 1 ELSE 0
    IN  IF wa_text[1] = LabelTok
        THEN Cleaned(SubSeq(phone_in, 1, plus + RunLen(phone_in, 1 + plus, NumberChars)))
        ELSE SubSeq(phone_in, 1, RunLen(phone_in, 1, Digits))

\* C8: every match of extract_whatsapp_links (wa.me link, chat-API link,
\* labelled number) is emitted as the normaliser's result on the matched
\* digits: shorter than 10 characters is rejected, a leading "08" becomes
\* "+62" and the digits after the 0.
C8_MatchesAreNormalized ==
    phone_pc = "extracted" =>
        wa_found = {NormalizeIndonesianPhone(MatchedNumber)} \ {None}

\* C9: both normalisers are idempotent, None going to None.
C9_NormalizeIdempotent ==
    /\ phone_pc \in {"scraper_twice", "validator_once", "validator_twice", "extracted"}
          => scraper_twice = scraper_once
    /\ phone_pc \in {"validator_twice", "extracted"}
          => validator_twice = validator_once

\* an input both normalisers rewrite ("08..." of ten characters or more),
\* normalised twice by each
C9_Witness ==
    /\ phone_pc = "validator_twice"
    /\ StartsWith(phone_in, <<"0", "8">>)
    /\ scraper_once # None /\ scraper_once # phone_in
    /\ validator_once # None /\ validator_once # phone_in

(***************************************************************************)
(* Claims about _extract_json, checked under SpecJson.                     *)
(***************************************************************************)
\* the candidates in the order of the claim: the fenced "json" blocks, any
\* fenced blocks, the largest brace-delimited substring, the whole text
Candidates(text) ==
    FencedBlocks(text, TRUE, 1) \o FencedBlocks(text, FALSE, 1)
        \o BraceSubstring(text) \o <<text>>

RECURSIVE FirstValid(_)
FirstValid(cands) ==
    IF cands = <<>> THEN None
    ELSE IF IsValidJson(Head(cands)) THEN Head(cands) ELSE FirstValid(Tail(cands))

Terminal(res, raised) ==
    /\ res.status \in {COMPLETED, FAILED}
    /\ raised # None => /\ res.status = FAILED
                        /\ res.error_message \in ErrorMessages
                        /\ res.school_data = None
    /\ raised = None => /\ res.status = COMPLETED
                        /\ res.school_data \in
                               {ExtractSchoolData(res.school_input, outcome) :
                                    outcome \in ProviderOutcomes}
                        /\ res.error_message = None

Count(results, status) ==
    Cardinality({k \in 1..Len(results) : results[k].status = status})

\* C2: enrich_batch returns one result per school, in input order, and
\* successful + failed = n = total, whichever schools fail; a failure does not
\* stop the schools after it.
C2_BatchCountsEveryEntity ==
    /\ batch_pc \in {"loop", "enrich", "sleep", "done"} =>
          /\ batch_result.total_schools = Len(schools)
          /\ batch_result.successful + batch_result.failed = Len(batch_result.results)
          /\ batch_result.successful = Count(batch_result.results, COMPLETED)
          /\ batch_result.failed = Count(batch_result.results, FAILED)
          /\ \A k \in 1..Len(batch_result.results) :
                batch_result.results[k].school_input = schools[k]
    /\ batch_pc = "done" =>
          /\ Len(batch_result.results) = Len(schools)
          /\ batch_result.successful + batch_result.failed = batch_result.total_schools

\* a finished batch of three schools whose first school failed and whose
\* last school completed
C2_Witness ==
    /\ batch_pc = "done"
    /\ Len(schools) = 3
    /\ batch_result.results[1].status = FAILED
    /\ batch_result.results[2].status = FAILED
    /\ batch_result.results[3].status = COMPLETED
    /\ batch_result.successful = 1 /\ batch_result.failed = 2

\* C11: when the provider's answer holds no JSON, or the provider call or the
\* construction of the record raises, extract_school_data returns the basic
\* record of the input school, the extraction phase reaches no handler of
\* enrich_school, and a pipeline that raises nowhere else returns completed
\* with that record.
C11_StubOnProviderFailure ==
    (provider # None /\ provider # <<"parsed">>) =>
        /\ school_data \in {SchoolData(result.school_input),
                            ErrorSchoolData(result.school_input)}
        /\ raised_in # <<"extract">>
        /\ (enrich_pc = "returned" /\ raised_in = None) =>
               (result.status = COMPLETED /\ result.school_data = school_data)

C11_Witness ==
    /\ provider = <<"call_failed">>
    /\ enrich_pc = "returned"
    /\ result.status = COMPLETED
    /\ result.school_data = ErrorSchoolData(result.school_input)


(***************************************************************************)
(* Claims about the merged WhatsApp values, checked under SpecMerge.       *)
(***************************************************************************)
\* None, or "+62" followed by digits only
NullOrPlus62(str) ==
    \/ str = None
    \/ /\ StartsWith(str, <<"+", "6", "2">>)
       /\ \A k \in 4..Len(str) : IsDigit(str[k])

\* C7: in a completed record the primary WhatsApp of the school and the
\* WhatsApp of each person are None or "+62" followed by digits only.
C7_WhatsappValuesArePlus62 ==
    merge_pc = "done" =>
        /\ NullOrPlus62(whatsapp_business)
        /\ NullOrPlus62(person_whatsapp)

(***************************************************************************)
(* Claims about _get_role_priority, checked under SpecRole.                *)
(***************************************************************************)
\* the (tier, keyword set) pairs, from the highest tier to the lowest
TierKeywords ==
    <<<<HIGHEST, HighestKeywords>>, <<HIGH, HighKeywords>>, <<MEDIUM, MediumKeywords>>,
      <<LOW, LowKeywords>>>>

\* the tiers one of whose keywords is in the text whatever the case of its letters
MatchingTiers(role) ==
    IF role = None THEN {}
    ELSE {t \in 1..Len(TierKeywords) :
             \E kw \in TierKeywords[t][2] :
                 \E i \in 0..(Len(role) - Len(kw)) :
                     \A k \in 1..Len(kw) : LowerChar(role[i + k]) = LowerChar(kw[k])}

SameNameIgnoringCase(a, b) == a # None /\ b # None /\ Lower(a) = Lower(b)

\* C13: after deduplication no two people of the record have names that are
\* equal ignoring case, and each person kept is the first person of the input
\* with that name; "Budi Santoso" and "BUDI SANTOSO" leave one person.
C13_NoDuplicateNames ==
    people_pc = "returned" =>
        /\ \A i, j \in 1..Len(dm_out) :
               i # j => ~SameNameIgnoringCase(dm_out[i].name, dm_out[j].name)
        /\ \A k \in 1..Len(dm_out) :
               \E i \in 1..Len(dm_in) :
                   /\ dm_in[i] = dm_out[k]
                   /\ \A j \in 1..(i - 1) :
                          ~SameNameIgnoringCase(dm_in[j].name, dm_in[i].name)
        /\ \A i \in 1..Len(dm_in) :
               dm_in[i].name # None =>
                   \E k \in 1..Len(dm_out) : NameKey(dm_out[k].name) = NameKey(dm_in[i].name)

C13_Witness ==
    /\ people_pc = "returned"
    /\ dm_in = <<[name |-> <<"B", "u", "d", "i", " ", "S", "a", "n", "t", "o", "s", "o">>, priority |-> MEDIUM],
                 [name |-> <<"B", "U", "D", "I", " ", "S", "A", "N", "T", "O", "S", "O">>, priority |-> HIGHEST]>>
    /\ dm_out = <<[name |-> <<"B", "u", "d", "i", " ", "S", "a", "n", "t", "o", "s", "o">>, priority |-> MEDIUM]>>

\* the order of names: character by character, letters by the alphabet
CharRank(c) ==
    IF \E i \in 1..Len(LowerCase) : LowerCase[i] = LowerChar(c)
    THEN CHOOSE i \in 1..Len(LowerCase) : LowerCase[i] = LowerChar(c)
    ELSE 0

RECURSIVE NameBefore(_, _)
NameBefore(a, b) ==
    IF a = <<>> THEN TRUE
    ELSE IF b = <<>> THEN FALSE
    ELSE IF CharRank(Head(a)) # CharRank(Head(b)) THEN CharRank(Head(a)) < CharRank(Head(b))
    ELSE NameBefore(Tail(a), Tail(b))

\* C14: after the merge the people are sorted by tier, the highest first, and
\* people of the same tier by name ascending, whatever the order of the input.
C14_SortedByTierThenName ==
    people_pc = "returned" =>
        \A i, j \in 1..Len(dm_out) :
            i < j =>
                \/ PriorityIndex(dm_out[i].priority) < PriorityIndex(dm_out[j].priority)
                \/ /\ dm_out[i].priority = dm_out[j].priority
                   /\ NameBefore(dm_out[i].name, dm_out[j].name)

(***************************************************************************)
(* Claims about the merge of the record, checked under SpecMerge.          *)
(***************************************************************************)
\* C15: for the primary WhatsApp the first value present wins in the order
\* parsed record, Google Maps, crawl: the value of the parsed record is never
\* overwritten, and without one the Google Maps phone wins over the numbers
\* found in the crawled page.
C15_FirstNonNullWins ==
    merge_pc = "done" =>
        /\ Truthy(llm_business) => whatsapp_business = llm_business
        /\ (~Truthy(llm_business) /\ Truthy(maps_phone) /\ whatsapp_numbers # {}) =>
               whatsapp_business = maps_phone

\* no two members are equal ignoring the case of their letters
NoCaseDuplicates(values) ==
    \A i, j \in 1..Len(values) : i # j => Lower(values[i]) # Lower(values[j])

\* C16: the merged source urls hold every source url of the parsed record and
\* every scraped page url, and neither the phones nor the source urls hold two
\* values that are equal ignoring case.
C16_UnionWithoutCaseDuplicates ==
    merge_pc = "done" =>
        /\ Range(llm_sources) \subseteq Range(source_urls)
        /\ Range(page_urls) \subseteq Range(source_urls)
        /\ NoCaseDuplicates(source_urls)
        /\ NoCaseDuplicates(phone_numbers)

(***************************************************************************)
(* Claims about calculate_quality_score, checked under SpecQuality.        *)
(***************************************************************************)
\* C17: the score calculate_quality_score returns and stores is within [0,1]
\* for every combination of fields and every number of verified people.
C17_ScoreWithinUnitInterval ==
    quality_pc = "returned" => (q_score >= 0 /\ q_score <= 100)

\* every check passed and three verified people: the capped bonus, the score 1.0
C17_Witness ==
    /\ quality_pc = "returned"
    /\ q_fields = DOMAIN FieldWeights
    /\ VerifiedContacts(q_people) = 3
    /\ q_bonus = BonusCap
    /\ q_score = 100

\* the people with every verified flag cleared
ClearVerified(people) ==
    [i \in 1..Len(people) |->
        [people[i] EXCEPT !.whatsapp_verified = FALSE, !.email_verified = FALSE]]

\* C18: the bonus is min(0.30, 0.10 x verified people), and the score with
\* the bonus is never lower than the score of the same record with the
\* verified flags cleared.
C18_BonusNeverLowersScore ==
    quality_pc = "returned" =>
        /\ q_bonus = (IF VerifiedContacts(q_people) >= 3 THEN 300
                      ELSE 100 * VerifiedContacts(q_people))
        /\ q_score >= QualityScore(q_fields, ClearVerified(q_people))

\* one verified person lifts a record with few fields
C18_Witness ==
    /\ quality_pc = "returned"
    /\ q_fields = {"npsn"}
    /\ VerifiedContacts(q_people) = 1
    /\ q_bonus = 100
    /\ q_score > QualityScore(q_fields, ClearVerified(q_people))

(***************************************************************************)
(* Claims about ContactValidator, checked under SpecValidator.             *)
(***************************************************************************)
\* every entry of the cache before the step is in the cache after it
CacheKept(before, after) ==
    \A key \in DOMAIN before : key \in DOMAIN after /\ after[key] = before[key]

\* a call whose key was cached returns the stored result and consults nothing
HitReturnsStored ==
    v_known =>
        /\ ~v_consulted
        /\ validator_pc = "returned"
        /\ v_kind = "whatsapp" =>
               v_result.exists = whatsapp_cache[ValidatorNormalizePhone(v_input)]
        /\ v_kind = "email" => v_result = email_cache[Lower(v_input)]

C20_EmailStepsInSequence ==
    v_kind = "email" =>
        /\ v_outcomes.mx # "none" => v_outcomes.syntax = "pass"
        /\ v_outcomes.smtp # "none" => v_outcomes.mx = "pass"
        /\ (validator_pc = "returned" /\ ~v_known) =>
               (v_result.is_live <=>
                    (v_outcomes.syntax = "pass" /\ v_outcomes.mx = "pass"
                        /\ v_outcomes.smtp = "pass"))
        /\ validator_pc \in {"syntax", "mx", "smtp", "finish"} => ENABLED NextValidator

\* the MX lookup found a record and the handshake raised
C20_Witness ==
    /\ v_kind = "email"
    /\ validator_pc = "returned"
    /\ v_outcomes = [syntax |-> "pass", mx |-> "pass", smtp |-> "exception"]
    /\ ~v_result.is_live

\* C21: the is_personal flag verify_email_live returns is the prefix rule on
\* the lower-cased local part of the address, whatever the syntax check, the
\* MX lookup and the handshake did.
C21_PersonalFollowsPrefixRule ==
    (v_kind = "email" /\ validator_pc = "returned") =>
        v_result.is_personal = IsPersonal(v_input)

\* C22: the requests the search provider is serving never exceed the
\* configured ceiling, and each of them was posted while holding a permit.
C22_RequestsWithinCeiling ==
    (job_pc # <<>>) =>
        /\ Cardinality(InFlight) <= REQUESTS_PER_MINUTE
        /\ InFlight \subseteq HoldingPermit

\* C23: when process_schools returns, the results hold one entry per input
\* school in input order, and the callback was invoked once per school with
\* its position and the number of schools, also when the callback raised.
C23_OneResultPerSchool ==
    (api_pc \in {"save", "done"} /\ api_i = api_n) =>
        /\ Len(api_results) = api_n
        /\ \A k \in DOMAIN api_results : api_results[k].school = k
        /\ api_calls = [k \in 1..api_n |-> [processed |-> k, total |-> api_n]]

\* C24: the job id the POST handler returned is the id of a row of the jobs
\* table, and a status request for it is never answered with not found.
C24_ReturnedIdIsStoredRow ==
    (job_id # "none") =>
        /\ GetJob(job_rows, job_id) # {}
        /\ status_reply # "not_found"

\* C27: the counts update_progress passes to the store after an entity are
\* the number of completed and the number of failed results so far.
C27_ProgressCountsSoFar ==
    (progress_args.processed > 0) =>
        LET done == SubSeq(api_outcomes, 1, progress_args.processed) IN
        /\ progress_args.successful = Cardinality({k \in DOMAIN done : done[k] = COMPLETED})
        /\ progress_args.failed = Cardinality({k \in DOMAIN done : done[k] = FAILED})

\* C25: with two traversals interleaved on the shared scraper, neither
\* fetches a URL twice and neither skips a URL that only the other one,
\* not itself, had put into the visited set.
C25_TraversalsDoNotInterfere ==
    (t_pc # <<>>) =>
        \A t \in Traversals :
            /\ \A i, j \in DOMAIN t_fetched[t] : t_fetched[t][i] = t_fetched[t][j] => i = j
            /\ ~t_foreign_skip[t]

\* the people of the record with only the flags the validator granted
GrantedFlags ==
    [i \in DOMAIN rec_people |->
        [rec_people[i] EXCEPT
            !.whatsapp_verified = val_log[i].wa_ran /\ val_log[i].wa_exists,
            !.email_verified = val_log[i].email_ran /\ val_log[i].email_live]]

\* C26: in a completed record a verified flag is true only if the validator
\* was run on that contact and reported it, and the verification bonus
\* counts only such flags.
C26_VerifiedOnlyByValidator ==
    (verify_pc = "completed") =>
        /\ rec_people = GrantedFlags
        /\ rec_bonus = VerificationBonus(GrantedFlags)

\* C28: in every progress update the store accepted, successful plus failed
\* equals the number of schools processed, also after a call of the store
\* raised.
C28_CountsAddUp ==
    \A k \in DOMAIN es_persisted :
        es_persisted[k].successful + es_persisted[k].failed = es_persisted[k].processed

\* C29: for every base URL, every max_pages from 0 on, every choice of links
\* and every choice of failing fetches, the traversal reaches its return.
C29_CrawlTerminates == <>(crawl_pc = "done")

C29_Witness ==
    /\ crawl_pc = "done"
    /\ Len(fetch_log) >= 2
    /\ \E i \in DOMAIN fetch_log : ~fetch_log[i].success
    /\ \E i \in DOMAIN fetch_log : fetch_log[i].success

\* C30: the single-list traversal (priority links inserted at the front,
\* the others appended) fetches the pages in the same order as the traversal
\* with a priority and a normal first-in-first-out queue, priority first.
C30_SameFetchOrder ==
    (order_pc = "returned") => o_single = o_double

====
